---- MODULE Spec2Model ----
(***************************************************************************)
(* Verification model of the inventory dashboard: the CSV ingestion        *)
(* pipeline of services/inventoryService (fetch strategies, tokenizer,     *)
(* column resolver, record builder, row filter) and the load/replace       *)
(* state machine of App.tsx.                                               *)
(*                                                                         *)
(* A JavaScript string is a sequence of one-character strings.             *)
(* `undefined` for an optional string is the empty sequence (the code      *)
(* only produces undefined from an empty value).                           *)
(***************************************************************************)
EXTENDS Integers, Sequences, FiniteSets, TLC

\* ------------------------------------------------------------------------
\* Characters and string primitives
\* ------------------------------------------------------------------------
UpperAlpha == <<"A","B","C","D","E","F","G","H","I","J","K","L","M","N","O","P","Q","R","S","T","U","V","W","X","Y","Z">>

LowerAlpha == <<"a","b","c","d","e","f","g","h","i","j","k","l","m","n","o","p","q","r","s","t","u","v","w","x","y","z">>

DigitChars == <<"0","1","2","3","4","5","6","7","8","9">>

\* printable ASCII 32..95 in code order (the lower-case letters follow at 97)
AsciiPrintable == <<" ","!","\"","#","$","%","&","'","(",")","*","+",",","-",".","/","0","1","2","3","4","5","6","7","8","9",":",";","<","=",">","?","@","A","B","C","D","E","F","G","H","I","J","K","L","M","N","O","P","Q","R","S","T","U","V","W","X","Y","Z","[","\\","]","^","_">>

IsLetter(c) == \E i \in 1..26 : UpperAlpha[i] = c \/ LowerAlpha[i] = c

LetterPos(c) == CHOOSE i \in 1..26 : UpperAlpha[i] = c \/ LowerAlpha[i] = c

IsDigit(c) == \E i \in 1..10 : DigitChars[i] = c

DigitVal(c) == (CHOOSE i \in 1..10 : DigitChars[i] = c) - 1

IsSpace(c) == c \in {" ", "\t", "\n", "\r"}

charCodeAt(c) ==
  IF c = "\t" THEN 9
  ELSE IF c = "\n" THEN 10
  ELSE IF c = "\r" THEN 13
  ELSE IF \E i \in 1..26 : LowerAlpha[i] = c THEN 96 + LetterPos(c)
  ELSE 31 + (CHOOSE i \in 1..Len(AsciiPrintable) : AsciiPrintable[i] = c)

LowerChar(c) ==
  IF \E i \in 1..26 : UpperAlpha[i] = c THEN LowerAlpha[LetterPos(c)] ELSE c

toLowerCase(s) == [i \in 1..Len(s) |-> LowerChar(s[i])]

RECURSIVE trimStart(_)
trimStart(s) ==
  IF Len(s) > 0 /\ IsSpace(s[1]) THEN trimStart(Tail(s)) ELSE s

RECURSIVE trimEnd(_)
trimEnd(s) ==
  IF Len(s) > 0 /\ IsSpace(s[Len(s)]) THEN trimEnd(SubSeq(s, 1, Len(s) - 1)) ELSE s

trim(s) == trimEnd(trimStart(s))

startsWith(s, p) == Len(p) <= Len(s) /\ SubSeq(s, 1, Len(p)) = p

endsWith(s, p) == Len(p) <= Len(s) /\ SubSeq(s, Len(s) - Len(p) + 1, Len(s)) = p

includes(s, k) == \E i \in 0..(Len(s) - Len(k)) : \A j \in 1..Len(k) : s[i + j] = k[j]

\* text.split('\n')
RECURSIVE splitLoop(_, _, _, _)
splitLoop(text, i, start, acc) ==
  IF i > Len(text) THEN Append(acc, SubSeq(text, start, Len(text)))
  ELSE IF text[i] = "\n"
       THEN splitLoop(text, i + 1, i + 1, Append(acc, SubSeq(text, start, i - 1)))
       ELSE splitLoop(text, i + 1, start, acc)

splitLines(text) == splitLoop(text, 1, 1, <<>>)

\* s.replace(/\s+/g, '')  (also used for /[\s_]+/g with the underscore flag)
removeSpaces(s, alsoUnderscore) ==
  SelectSeq(s, LAMBDA c : ~IsSpace(c) /\ ~(alsoUnderscore /\ c = "_"))

\* s.replace(/\s+/g, ' ')
RECURSIVE collapseLoop(_, _, _)
collapseLoop(s, i, acc) ==
  IF i > Len(s) THEN acc
  ELSE IF IsSpace(s[i])
       THEN IF i > 1 /\ IsSpace(s[i - 1])
            THEN collapseLoop(s, i + 1, acc)
            ELSE collapseLoop(s, i + 1, Append(acc, " "))
       ELSE collapseLoop(s, i + 1, Append(acc, s[i]))

collapseSpaces(s) == collapseLoop(s, 1, <<>>)

\* ------------------------------------------------------------------------
\* JavaScript numbers: an integer or NaN
\* ------------------------------------------------------------------------
NaN == [nan |-> TRUE, val |-> 0]

Num(v) == [nan |-> FALSE, val |-> v]

\* a <= b, a < b, a > b, a === b on numbers: every comparison with NaN is false
JsLe(a, b) == ~a.nan /\ ~b.nan /\ a.val <= b.val

JsLt(a, b) == ~a.nan /\ ~b.nan /\ a.val < b.val

JsGt(a, b) == ~a.nan /\ ~b.nan /\ a.val > b.val

JsEq(a, b) == ~a.nan /\ ~b.nan /\ a.val = b.val

RECURSIVE digitsPrefix(_, _, _)
digitsPrefix(s, i, acc) ==
  IF i <= Len(s) /\ IsDigit(s[i])
  THEN digitsPrefix(s, i + 1, [n |-> acc.n + 1, v |-> acc.v * 10 + DigitVal(s[i])])
  ELSE acc

\* parseInt(s, 10) for a string of digits and minus signs
parseInt(s) ==
  LET neg  == Len(s) > 0 /\ s[1] = "-"
      from == IF neg THEN 2 ELSE 1
      d    == digitsPrefix(s, from, [n |-> 0, v |-> 0])
  IN  IF d.n = 0 THEN NaN ELSE Num(IF neg THEN 0 - d.v ELSE d.v)

\* parseFloat(s) for a string of digits and periods: the value is kept as
\* whole part and fraction digits
RECURSIVE fracDigits(_, _, _)
fracDigits(s, i, acc) ==
  IF i <= Len(s) /\ IsDigit(s[i]) THEN fracDigits(s, i + 1, Append(acc, s[i])) ELSE acc

RECURSIVE dropTrailingZeros(_)
dropTrailingZeros(s) ==
  IF Len(s) > 0 /\ s[Len(s)] = "0" THEN dropTrailingZeros(SubSeq(s, 1, Len(s) - 1)) ELSE s

parseFloat(s) ==
  LET w  == digitsPrefix(s, 1, [n |-> 0, v |-> 0])
      fr == IF w.n + 1 <= Len(s) /\ s[w.n + 1] = "."
            THEN fracDigits(s, w.n + 2, <<>>) ELSE <<>>
  IN  IF w.n = 0 /\ fr = <<>>
      THEN [nan |-> TRUE, whole |-> 0, frac |-> <<>>]
      ELSE [nan |-> FALSE, whole |-> w.v, frac |-> dropTrailingZeros(fr)]

\* ------------------------------------------------------------------------
\* inventoryService: getColumnIndex, parseCSVLine
\* ------------------------------------------------------------------------
RECURSIVE columnIndexLoop(_, _, _)
columnIndexLoop(clean, i, index) ==
  IF i > Len(clean) THEN index
  ELSE columnIndexLoop(clean, i + 1, index * 26 + LetterPos(clean[i]))

\* mutation: the digit of a letter taken as A=0 (charCode - 65) and no final -1
RECURSIVE columnIndexLoopZero(_, _, _)
columnIndexLoopZero(clean, i, index) ==
  IF i > Len(clean) THEN index
  ELSE columnIndexLoopZero(clean, i + 1, index * 26 + (LetterPos(clean[i]) - 1))

getColumnIndexZeroDigit(letter) ==
  IF letter = <<>> THEN -1
  ELSE LET clean == SelectSeq(letter, IsLetter)
       IN  IF clean = <<>> THEN -1 ELSE columnIndexLoopZero(clean, 1, 0)

getColumnIndex(letter) ==
  IF letter = <<>> THEN -1
  ELSE LET clean == SelectSeq(letter, IsLetter)
       IN  IF clean = <<>> THEN -1 ELSE columnIndexLoop(clean, 1, 0) - 1

toUpperCase(s) ==
  [i \in 1..Len(s) |-> IF IsLetter(s[i]) THEN UpperAlpha[LetterPos(s[i])] ELSE s[i]]

\* val.replace(/""/g, '"')
RECURSIVE undoubleQuotes(_, _, _)
undoubleQuotes(s, i, acc) ==
  IF i > Len(s) THEN acc
  ELSE IF i < Len(s) /\ s[i] = "\"" /\ s[i + 1] = "\""
       THEN undoubleQuotes(s, i + 2, Append(acc, "\""))
       ELSE undoubleQuotes(s, i + 1, Append(acc, s[i]))

\* mutation: the surrounding quotes removed but doubled quotes left as they are
fieldValueNoUndouble(rawField) ==
  LET val == trim(rawField)
  IN  IF startsWith(val, <<"\"">>) /\ endsWith(val, <<"\"">>)
      THEN IF Len(val) = 1 THEN val
           ELSE SubSeq(val, 2, Len(val) - 1)
      ELSE val

\* the trim / unquote applied to each field; substring(1, 0) of a lone quote
\* swaps its arguments and yields the quote itself
fieldValue(rawField) ==
  LET val == trim(rawField)
  IN  IF startsWith(val, <<"\"">>) /\ endsWith(val, <<"\"">>)
      THEN IF Len(val) = 1 THEN val
           ELSE undoubleQuotes(SubSeq(val, 2, Len(val) - 1), 1, <<>>)
      ELSE val

RECURSIVE parseCSVLoop(_, _, _, _, _)
parseCSVLoop(line, i, startValueIndex, inQuotes, result) ==
  IF i > Len(line)
  THEN Append(result, fieldValue(SubSeq(line, startValueIndex, Len(line))))
  ELSE IF line[i] = "\""
       THEN parseCSVLoop(line, i + 1, startValueIndex, ~inQuotes, result)
       ELSE IF line[i] = "," /\ ~inQuotes
            THEN parseCSVLoop(line, i + 1, i + 1, inQuotes,
                              Append(result, fieldValue(SubSeq(line, startValueIndex, i - 1))))
            ELSE parseCSVLoop(line, i + 1, startValueIndex, inQuotes, result)

parseCSVLine(line) == parseCSVLoop(line, 1, 1, FALSE, <<>>)

\* ------------------------------------------------------------------------
\* inventoryService: extractSheetId
\* ------------------------------------------------------------------------
DEFAULT_SHEET_ID == <<"1","0","V","F","9","Y","k","-","r","9","p","I","N","t","t","n","g","Y","z","8","M","N","X","F","k","-","u","j","P","A","v","v","O","u","k","F","7","Y","p","f","4","L","B","g">>

IsIdChar(c) == IsLetter(c) \/ IsDigit(c) \/ c = "-" \/ c = "_"

RECURSIVE idCharsFrom(_, _, _)
idCharsFrom(s, i, acc) ==
  IF i <= Len(s) /\ IsIdChar(s[i]) THEN idCharsFrom(s, i + 1, Append(acc, s[i])) ELSE acc

\* input.match(/\/d\/([a-zA-Z0-9-_]+)/): the capture of the leftmost match, <<>> when none
RECURSIVE matchSheetPath(_, _)
matchSheetPath(input, i) ==
  IF i + 3 > Len(input) THEN <<>>
  ELSE IF SubSeq(input, i, i + 2) = <<"/","d","/">> /\ IsIdChar(input[i + 3])
       THEN idCharsFrom(input, i + 3, <<>>)
       ELSE matchSheetPath(input, i + 1)

extractSheetId(input) ==
  IF input = <<>> THEN DEFAULT_SHEET_ID
  ELSE LET m == matchSheetPath(input, 1)
       IN  IF m # <<>> THEN m
           ELSE IF includes(input, <<"/">>) THEN DEFAULT_SHEET_ID ELSE input

\* ------------------------------------------------------------------------
\* inventoryService: column resolver
\* ------------------------------------------------------------------------
\* lines[0] parsed and normalised: lower-cased, whitespace and underscores removed
normalizeHeaders(headerLine) ==
  LET cells == parseCSVLine(headerLine)
  IN  [i \in 1..Len(cells) |-> removeSpaces(toLowerCase(cells[i]), TRUE)]

\* headers.findIndex(h => keywords.some(k => h.includes(k))), zero-based, -1 when none
findHeaderIndex(headers, keywords) ==
  LET hits == {i \in 1..Len(headers) : \E k \in 1..Len(keywords) : includes(headers[i], keywords[k])}
  IN  IF hits = {} THEN -1
      ELSE (CHOOSE i \in hits : \A j \in hits : i <= j) - 1

\* mutation: the keyword scan is tried before the user's column letter
resolveIndexAutoFirst(headers, userVal, keywords, fallbackIdx) ==
  LET userIdx == getColumnIndex(userVal)
      autoIdx == findHeaderIndex(headers, keywords)
  IN  IF autoIdx # -1 THEN autoIdx
      ELSE IF userIdx > -1 THEN userIdx
      ELSE fallbackIdx

resolveIndex(headers, userVal, keywords, fallbackIdx) ==
  LET userIdx == getColumnIndex(userVal)
      autoIdx == findHeaderIndex(headers, keywords)
  IN  IF userIdx > -1 THEN userIdx
      ELSE IF autoIdx # -1 THEN autoIdx
      ELSE fallbackIdx

\* keyword lists and fallback indices of the roles
KwModel == <<<<"m","o","d","e","l">>, <<"c","a","t","e","g","o","r","y">>, <<"t","y","p","e">>, <<"g","r","o","u","p">>>>

KwSku == <<<<"s","k","u">>, <<"p","a","r","t","n","u","m","b","e","r">>, <<"p","a","r","t","#">>, <<"i","d">>, <<"i","t","e","m","c","o","d","e">>>>

KwPartNum == <<<<"p","a","r","t","n","u","m","b","e","r">>, <<"p","a","r","t","#">>, <<"m","p","n">>>>

KwDetails == <<<<"d","e","s","c","r","i","p","t","i","o","n">>, <<"n","a","m","e">>, <<"d","e","t","a","i","l","s">>, <<"d","e","s","c">>, <<"t","i","t","l","e">>, <<"p","r","o","d","u","c","t","t","i","t","l","e">>>>

KwImage == <<<<"i","m","a","g","e">>, <<"u","r","l">>, <<"p","h","o","t","o">>, <<"p","i","c","t","u","r","e">>>>

KwQty == <<<<"q","t","y">>, <<"q","u","a","n","t","i","t","y">>, <<"s","t","o","c","k">>, <<"o","n","h","a","n","d">>>>

KwAlt == <<<<"a","l","t">>, <<"a","l","t","e","r","n","a","t","e">>, <<"r","e","s","e","r","v","e">>>>

KwEta(n) == <<<<"e","t","a">> \o <<DigitChars[n + 1]>>, <<"e","t","a"," ">> \o <<DigitChars[n + 1]>>>>

KwWeight == <<<<"w","e","i","g","h","t">>, <<"w","t">>, <<"m","a","s","s">>>>

KwShipWeight == <<<<"s","h","i","p","p","i","n","g">>, <<"s","h","i","p","w","t">>>>

KwLoc == <<<<"l","o","c">>, <<"b","i","n">>, <<"s","h","e","l","f">>, <<"w","a","r","e","h","o","u","s","e">>>>

KwPrice == <<<<"p","r","i","c","e">>, <<"c","o","s","t">>, <<"m","s","r","p">>>>

Roles ==
  {"model", "sku", "partNumber", "productDetails", "productImage", "quantity",
   "altStock", "eta1", "eta2", "eta3", "eta4", "eta5", "weight", "shippingWeight"}

\* the initial columnMapping of App: every role ''
EmptyMapping == [r \in Roles |-> <<>>]

\* the resolved index of every role for one header line and mapping
resolveColumns(headers, mapping) ==
  [ idxModel      |-> resolveIndex(headers, mapping["model"], KwModel, 1),
    idxSku        |-> resolveIndex(headers, mapping["sku"], KwSku, 2),
    idxPartNum    |-> resolveIndex(headers, mapping["partNumber"], KwPartNum, -1),
    idxDetails    |-> resolveIndex(headers, mapping["productDetails"], KwDetails, 3),
    idxImage      |-> resolveIndex(headers, mapping["productImage"], KwImage, -1),
    idxQty        |-> resolveIndex(headers, mapping["quantity"], KwQty, 4),
    idxAlt        |-> resolveIndex(headers, mapping["altStock"], KwAlt, 6),
    etaIndices    |-> << resolveIndex(headers, mapping["eta1"], KwEta(1), 7),
                         resolveIndex(headers, mapping["eta2"], KwEta(2), 8),
                         resolveIndex(headers, mapping["eta3"], KwEta(3), 9),
                         resolveIndex(headers, mapping["eta4"], KwEta(4), 11),
                         resolveIndex(headers, mapping["eta5"], KwEta(5), 12) >>,
    idxWeight     |-> resolveIndex(headers, mapping["weight"], KwWeight, 13),
    idxShipWeight |-> resolveIndex(headers, mapping["shippingWeight"], KwShipWeight, -1),
    idxLoc        |-> findHeaderIndex(headers, KwLoc),
    idxPrice      |-> findHeaderIndex(headers, KwPrice) ]

\* ------------------------------------------------------------------------
\* inventoryService: record builder
\* ------------------------------------------------------------------------
\* (idx > -1 && idx < cols.length) ? cols[idx].trim() : ''
getVal(cols, idx) ==
  IF idx > -1 /\ idx < Len(cols) THEN trim(cols[idx + 1]) ELSE <<>>

\* first position at or after i that holds no whitespace
RECURSIVE skipSpaces(_, _)
skipSpaces(s, i) ==
  IF i <= Len(s) /\ IsSpace(s[i]) THEN skipSpaces(s, i + 1) ELSE i

\* case-insensitive match of word w at position i: the position after it, 0 when none
matchWord(s, i, w) ==
  IF i >= 1 /\ i + Len(w) - 1 <= Len(s) /\ toLowerCase(SubSeq(s, i, i + Len(w) - 1)) = w
  THEN i + Len(w) ELSE 0

\* \(\s*W1\s*W2\s*\) at position i: the position after it, 0 when none
matchTagBody(s, i, w1, w2) ==
  IF i > Len(s) \/ s[i] # "(" THEN 0
  ELSE LET a == matchWord(s, skipSpaces(s, i + 1), w1)
       IN  IF a = 0 THEN 0
           ELSE LET b == matchWord(s, skipSpaces(s, a), w2)
                IN  IF b = 0 THEN 0
                    ELSE LET c == skipSpaces(s, b)
                         IN  IF c <= Len(s) /\ s[c] = ")" THEN c + 1 ELSE 0

\* (^|\s+) followed by the tag body, starting at position i
matchTagAt(s, i, w1, w2) ==
  LET atStart == IF i = 1 THEN matchTagBody(s, 1, w1, w2) ELSE 0
  IN  IF atStart # 0 THEN atStart
      ELSE IF IsSpace(s[i]) THEN matchTagBody(s, skipSpaces(s, i), w1, w2)
      ELSE 0

\* name.replace(/(^|\s+)\(\s*W1\s*W2\s*\)/gi, ' ')
RECURSIVE replaceTag(_, _, _, _, _)
replaceTag(s, i, w1, w2, acc) ==
  IF i > Len(s) THEN acc
  ELSE LET e == matchTagAt(s, i, w1, w2)
       IN  IF e # 0 THEN replaceTag(s, e, w1, w2, Append(acc, " "))
           ELSE replaceTag(s, i + 1, w1, w2, Append(acc, s[i]))

cleanName(desc) ==
  LET n1 == replaceTag(desc, 1, <<"f","l","o","w">>, <<"f","o","r","m","i","n","g">>, <<>>)
      n2 == replaceTag(n1, 1, <<"n","e","w">>, <<"a","r","r","i","v","e">>, <<>>)
  IN  trim(collapseSpaces(n2))

\* mutation: a shift by four, hash * 15 + char
hashStepShift4(h, char) ==
  LET lo16 == h.lo * 16
      shLo == lo16 % 65536
      shHi == (h.hi * 16 + (lo16 \div 65536)) % 65536
      t    == shLo - h.lo + char
      lo   == t % 65536
      hi   == (shHi - h.hi + (t \div 65536)) % 65536
  IN  [hi |-> hi, lo |-> lo]

\* 32-bit rolling hash, kept as two 16-bit halves of the unsigned word
\* hash = ((hash << 5) - hash) + char; hash |= 0
hashStep(h, char) ==
  LET lo32 == h.lo * 32
      shLo == lo32 % 65536
      shHi == (h.hi * 32 + (lo32 \div 65536)) % 65536
      t    == shLo - h.lo + char
      lo   == t % 65536
      hi   == (shHi - h.hi + (t \div 65536)) % 65536
  IN  [hi |-> hi, lo |-> lo]

RECURSIVE hashLoop(_, _, _)
hashLoop(rawString, i, h) ==
  IF i > Len(rawString) THEN h
  ELSE hashLoop(rawString, i + 1, hashStep(h, charCodeAt(rawString[i])))

\* Math.abs of the signed 32-bit value, as halves of the magnitude
hashAbs(h) ==
  IF h.hi < 32768 THEN h
  ELSE IF h.lo = 0 THEN [hi |-> 65536 - h.hi, lo |-> 0]
  ELSE [hi |-> 65535 - h.hi, lo |-> 65536 - h.lo]

\* decimal rendering of a magnitude given as halves
RECURSIVE decimalDigits(_, _)
decimalDigits(m, acc) ==
  LET hiQ  == m.hi \div 10
      full == (m.hi % 10) * 65536 + m.lo
      q    == [hi |-> hiQ, lo |-> full \div 10]
      d    == <<DigitChars[(full % 10) + 1]>> \o acc
  IN  IF q.hi = 0 /\ q.lo = 0 THEN d ELSE decimalDigits(q, d)

genId(category, loc) ==
  LET rawString == category \o <<"-">> \o loc
      hash      == hashLoop(rawString, 1, [hi |-> 0, lo |-> 0])
  IN  <<"G","E","N","-">> \o decimalDigits(hashAbs(hash), <<>>)

\* mutation: no safety fallback, the id of a row without text stays empty
makeIdNoFallback(sku, partNumber, name, category, loc) ==
  IF sku # <<>> THEN sku
  ELSE IF partNumber # <<>> THEN partNumber
  ELSE removeSpaces(name, FALSE)

\* mutation: the part number preferred over the SKU
makeIdPartFirst(sku, partNumber, name, category, loc) ==
  IF partNumber # <<>> THEN partNumber
  ELSE IF sku # <<>> THEN sku
  ELSE IF removeSpaces(name, FALSE) # <<>> THEN removeSpaces(name, FALSE)
  ELSE genId(category, loc)

\* let id = sku || partNumber; then cleaned name without whitespace; then GEN- hash
makeId(sku, partNumber, name, category, loc) ==
  IF sku # <<>> THEN sku
  ELSE IF partNumber # <<>> THEN partNumber
  ELSE IF removeSpaces(name, FALSE) # <<>> THEN removeSpaces(name, FALSE)
  ELSE genId(category, loc)

\* s.replace(/[^0-9-]/g, '')
keepDigitsMinus(s) == SelectSeq(s, LAMBDA c : IsDigit(c) \/ c = "-")

\* s.replace(/[^0-9.]/g, '')
keepDigitsDot(s) == SelectSeq(s, LAMBDA c : IsDigit(c) \/ c = ".")

parseQuantity(cell) ==
  LET stripped == keepDigitsMinus(cell)
      qtyStr   == IF stripped = <<>> THEN <<"0">> ELSE stripped
  IN  parseInt(qtyStr)

statusOf(quantity) ==
  IF JsLe(quantity, Num(0)) THEN "Out of Stock"
  ELSE IF JsLt(quantity, Num(8)) THEN "Low Stock"
  ELSE "In Stock"

\* altQuantity: undefined when the stripped cell is empty or parses to NaN
altQuantityOf(cell) ==
  LET altVal == keepDigitsMinus(cell)
  IN  IF altVal = <<>> \/ parseInt(altVal).nan
      THEN [defined |-> FALSE, val |-> 0]
      ELSE [defined |-> TRUE, val |-> parseInt(altVal).val]

\* mutation: only the lower-case spelling 'n/a' is dropped
etasOfCaseSensitive(cols, etaIndices) ==
  SelectSeq([k \in 1..Len(etaIndices) |-> getVal(cols, etaIndices[k])],
            LAMBDA val : Len(val) > 0 /\ val # <<"n","/","a">>)

etasOf(cols, etaIndices) ==
  SelectSeq([k \in 1..Len(etaIndices) |-> getVal(cols, etaIndices[k])],
            LAMBDA val : Len(val) > 0 /\ toLowerCase(val) # <<"n","/","a">>)

\* etas: etas.length > 0 ? etas : undefined
etasField(etas) == [defined |-> etas # <<>>, val |-> etas]

RECURSIVE joinWith(_, _)
joinWith(parts, sep) ==
  IF parts = <<>> THEN <<>>
  ELSE IF Len(parts) = 1 THEN parts[1]
  ELSE parts[1] \o sep \o joinWith(Tail(parts), sep)

\* cols[i] with undefined (index past the end) and '' both falling to the default
cellOr(cols, idx, dflt) ==
  IF idx > -1 /\ idx < Len(cols) /\ cols[idx + 1] # <<>> THEN cols[idx + 1] ELSE dflt

\* (idxPrice > -1 ? cols[idxPrice] : '0').replace(...): cols[idxPrice] is
\* undefined for a row shorter than the price column and .replace throws
priceThrows(cols, idxPrice) == idxPrice > -1 /\ idxPrice >= Len(cols)

priceOf(cols, idxPrice) ==
  LET cell     == IF idxPrice > -1 THEN cols[idxPrice + 1] ELSE <<"0">>
      stripped == keepDigitsDot(cell)
  IN  parseFloat(IF stripped = <<>> THEN <<"0">> ELSE stripped)

\* originalHeaders.forEach((h, i) => raw[h] = cols[i] || ''): a later column
\* with the same header overwrites an earlier one
rawOf(originalHeaders, cols) ==
  [h \in {originalHeaders[i] : i \in 1..Len(originalHeaders)} |->
     LET last == CHOOSE i \in 1..Len(originalHeaders) :
                   /\ originalHeaders[i] = h
                   /\ \A j \in 1..Len(originalHeaders) : originalHeaders[j] = h => j <= i
     IN  cellOr(cols, last - 1, <<>>)]

\* the record built from one data line (the callback of lines.slice(1).map)
buildItem(line, ix, originalHeaders) ==
  LET cols       == parseCSVLine(line)
      sku        == getVal(cols, ix.idxSku)
      partNumber == getVal(cols, ix.idxPartNum)
      model      == getVal(cols, ix.idxModel)
      category   == IF model = <<>> THEN <<"U","n","c","a","t","e","g","o","r","i","z","e","d">> ELSE model
      name       == cleanName(getVal(cols, ix.idxDetails))
      image      == getVal(cols, ix.idxImage)
      quantity   == parseQuantity(getVal(cols, ix.idxQty))
      etas       == etasOf(cols, ix.etaIndices)
  IN  [ id             |-> makeId(sku, partNumber, name, category, getVal(cols, ix.idxLoc)),
        sku            |-> sku,
        partNumber     |-> partNumber,
        name           |-> name,
        quantity       |-> quantity,
        location       |-> cellOr(cols, ix.idxLoc, <<"U","n","a","s","s","i","g","n","e","d">>),
        category       |-> category,
        price          |-> priceOf(cols, ix.idxPrice),
        imageUrl       |-> IF startsWith(image, <<"h","t","t","p">>) THEN image ELSE <<>>,
        status         |-> statusOf(quantity),
        eta            |-> joinWith(etas, <<","," ">>),
        etas           |-> etasField(etas),
        altQuantity    |-> altQuantityOf(getVal(cols, ix.idxAlt)),
        weight         |-> getVal(cols, ix.idxWeight),
        shippingWeight |-> getVal(cols, ix.idxShipWeight),
        raw            |-> rawOf(originalHeaders, cols) ]

\* ------------------------------------------------------------------------
\* inventoryService: row filter and the parse pass of fetchInventory
\* ------------------------------------------------------------------------
headerKeywords ==
  { <<"p","a","r","t"," ","#">>, <<"p","a","r","t"," ","n","u","m","b","e","r">>, <<"s","k","u">>, <<"p","a","r","t"," ","n","o",".">>, <<"i","t","e","m"," ","i","d">>, <<"i","d">>,
    <<"d","e","s","c","r","i","p","t","i","o","n">>, <<"d","e","s","c">>, <<"q","t","y">>, <<"q","u","a","n","t","i","t","y">> }

\* the callback of .filter(item => ...)
keepItem(item) ==
  LET hasName     == Len(trim(item.name)) > 0
      hasQty      == JsGt(item.quantity, Num(0))
      hasCategory == item.category # <<>> /\ item.category # <<"U","n","c","a","t","e","g","o","r","i","z","e","d">>
      lowerId     == trim(toLowerCase(item.id))
      lowerName   == trim(toLowerCase(item.name))
  IN  /\ item.id # <<>>
      /\ ~(~hasName /\ ~hasQty /\ ~hasCategory)
      /\ ~includes(toLowerCase(item.name), <<"f","i","t","m","e","n","t">>)
      /\ ~includes(toLowerCase(item.partNumber), <<"(","h","i","g","h","o","f","f","s","e","t",")">>)
      /\ ~includes(toLowerCase(item.id), <<"(","h","i","g","h","o","f","f","s","e","t",")">>)
      /\ ~(lowerId \in headerKeywords \/ lowerName \in headerKeywords)
      /\ ~(includes(lowerName, <<"d","e","s","c","r","i","p","t","i","o","n">>) /\ JsEq(item.quantity, Num(0)))

\* text.split('\n').filter(line => line.trim() !== '')
nonEmptyLines(text) == SelectSeq(splitLines(text), LAMBDA line : trim(line) # <<>>)

\* the records of lines.slice(1).map(...), before the filter
builtItems(text, mapping) ==
  LET lines == nonEmptyLines(text)
      ix    == resolveColumns(normalizeHeaders(lines[1]), mapping)
      orig  == parseCSVLine(lines[1])
  IN  [k \in 1..(Len(lines) - 1) |-> buildItem(lines[k + 1], ix, orig)]

\* some data line makes the map callback throw (TypeError at the price cell)
mapThrows(text, mapping) ==
  LET lines == nonEmptyLines(text)
      ix    == resolveColumns(normalizeHeaders(lines[1]), mapping)
  IN  \E k \in 2..Len(lines) : priceThrows(parseCSVLine(lines[k]), ix.idxPrice)

Returned(items) == [kind |-> "return", items |-> items, error |-> "none"]

Thrown(error) == [kind |-> "throw", items |-> <<>>, error |-> error]

Pending == [kind |-> "pending", items |-> <<>>, error |-> "none"]

RetrievalError == Thrown("Unable to load inventory data from any source.")

\* mutation: the lines.length < 2 guard removed; lines[0] of an empty list is
\* undefined and parseCSVLine(undefined) throws
parseInventoryNoGuard(success, text, mapping) ==
  IF ~success \/ text = <<>> THEN RetrievalError
  ELSE IF Len(nonEmptyLines(text)) = 0 THEN Thrown("TypeError")
  ELSE IF mapThrows(text, mapping) THEN Thrown("TypeError")
  ELSE Returned(SelectSeq(builtItems(text, mapping), keepItem))

\* fetchInventory from the guard on the obtained text to the return
parseInventory(success, text, mapping) ==
  IF ~success \/ text = <<>> THEN RetrievalError
  ELSE IF Len(nonEmptyLines(text)) < 2 THEN Returned(<<>>)
  ELSE IF mapThrows(text, mapping) THEN Thrown("TypeError")
  ELSE Returned(SelectSeq(builtItems(text, mapping), keepItem))

\* ------------------------------------------------------------------------
\* Bounds and input sets
\* ------------------------------------------------------------------------
MaxQty == 9

MaxNegQty == 2

MaxExtraRows == 1

Decimal(n) == decimalDigits([hi |-> 0, lo |-> n], <<>>)

QtyCells ==
  {Decimal(n) : n \in 0..MaxQty} \cup {<<"-">> \o Decimal(n) : n \in 1..MaxNegQty}
    \cup {<<>>, <<"-">>, <<"N","/","A">>, <<"1","-","2">>, <<" ","7"," ","p","c","s">>}

HeaderLines == {<<"S","K","U",",","M","o","d","e","l",",","D","e","s","c","r","i","p","t","i","o","n",",","Q","t","y">>, <<"s","k","u",",","m","o","d","e","l",",","d","e","s","c",",","q","t","y",",","l","o","c",",","p","r","i","c","e">>, <<"a",",","b">>}

RowLines ==
  {sku \o <<",">> \o model \o <<",">> \o desc \o <<",">> \o qty \o rest :
     sku \in {<<>>, <<"X","1">>}, model \in {<<>>, <<"B","M","W">>}, desc \in {<<>>, <<"W","h","e","e","l">>},
     qty \in QtyCells, rest \in {<<>>, <<",","A","1">>, <<",","A","1",",","9",".","5">>}}

ExtraRowLines == {<<"x">>, <<"Y","2",",","A","u","d","i",",","\"","R","i","m",","," ","1","8","i","n","\"",",","3",",","B","2",",","$","1","0">>}

RECURSIVE ExtraRows(_)
ExtraRows(n) ==
  IF n = 0 THEN {<<>>}
  ELSE ExtraRows(n - 1) \cup {tail \o <<"\n">> \o r : tail \in ExtraRows(n - 1), r \in ExtraRowLines}

ParseTexts ==
  {h \o <<"\n">> \o r \o extra : h \in HeaderLines, r \in RowLines, extra \in ExtraRows(MaxExtraRows)}

DegenerateTexts == {<<>>, <<"\n">>, <<" ","\n","\n">>, <<"s","k","u",",","q","t","y">>, <<"s","k","u",",","q","t","y","\n">>, <<"\n"," ","s","k","u",",","q","t","y"," ","\r","\n"," ","\n">>}

Mappings ==
  {EmptyMapping, [EmptyMapping EXCEPT !["quantity"] = <<"A">>, !["sku"] = <<"d">>]}

Sources == {<<>>, <<"h","t","t","p","s",":","/","/","d","o","c","s",".","g","o","o","g","l","e",".","c","o","m","/","s","p","r","e","a","d","s","h","e","e","t","s","/","d","/","a","b","-","1","/","e","d","i","t">>, <<"s","h","e","e","t","_","2">>}

ContentTypes == {<<>>, <<"t","e","x","t","/","h","t","m","l",";"," ","c","h","a","r","s","e","t","=","u","t","f","-","8">>, <<"t","e","x","t","/","c","s","v",";"," ","c","h","a","r","s","e","t","=","u","t","f","-","8">>}

Bodies ==
  DegenerateTexts
    \cup {<<"<","!","D","O","C","T","Y","P","E"," ","h","t","m","l",">","<","h","t","m","l",">">>, <<"S","K","U",",","Q","t","y","\n","X","1",",","5">>, <<"s","k","u",",","q","t","y",",","p","r","i","c","e","\n","X","1",",","5","\n","X","2",",","8",",","3",".","5">>}

\* ------------------------------------------------------------------------
\* State
\* ------------------------------------------------------------------------
VARIABLES
  sheetSource,     \* fetchInventory: argument sheetSource
  mapping,         \* fetchInventory: argument mapping
  fpc,             \* fetchInventory: position "api", "gviz", "proxy", "parse", "done"
  text,            \* fetchInventory: let text
  fetchSuccess,    \* fetchInventory: let fetchSuccess
  requests,        \* the fetch calls made so far, each with whether it set fetchSuccess
  outcome,         \* what the promise of fetchInventory settled with
  rHeaderLine,     \* resolveIndex: lines[0]
  rUserVal,        \* resolveIndex: userVal
  rRole,           \* resolveIndex: keywords and fallbackIdx of the role
  rIndex,          \* resolveIndex: the returned index
  rpc,             \* resolveIndex: "call" or "done"
  letter,          \* getColumnIndex: argument letter
  colIndex,        \* getColumnIndex: the returned index
  cpc,             \* getColumnIndex: "call" or "done"
  items,           \* App: useState items
  loading,         \* App: useState loading
  syncing,         \* App: useState syncing
  error,           \* App: useState error
  lastUpdated,     \* App: useState lastUpdated, as the count of completions (0 is null)
  activeSheetUrl,  \* App: useState activeSheetUrl
  columnMapping,   \* App: useState columnMapping
  showSettings,    \* App: useState showSettings
  intervalClosure, \* the url and mapping seen by the loadData the interval calls
  inflight,        \* the loadData calls awaiting fetchInventory
  nextLoadId,      \* number given to the next loadData call
  arrivals,        \* the settled loads in order of arrival
  sheetReplies,    \* what fetchInventory may settle with, per url and mapping
  searchQuery,     \* App: useState searchQuery
  multiIds,        \* App: useState multiIds
  quickFilter,     \* App: useState quickFilter
  selectedModel,   \* App: useState selectedModel (<<>> is null)
  multiText,       \* SearchControls: useState multiText
  debounce,        \* SearchControls: the 500 ms timer is pending
  csvValue,        \* parseCSVLine: the field value the line was written from
  csvLine,         \* parseCSVLine: argument line
  csvFields,       \* parseCSVLine: the returned fields
  csvpc,           \* parseCSVLine: "call" or "done"
  rowHeader,       \* record builder: lines[0]
  rowLine,         \* record builder: the data line handed to the map callback
  rowItem,         \* record builder: what the callback gave on the first run
  rowAgain,        \* record builder: what the callback gave on the second run
  rowpc,           \* record builder: "call", "built" or "again"
  statItems,       \* calculateStats: argument items
  statResult,      \* calculateStats: the returned stats
  statpc,          \* calculateStats: "call" or "done"
  apiRequest,      \* /api/inventory handler: the incoming request
  apiUpstream,     \* /api/inventory handler: the upstream requests made so far
  apiResponse,     \* /api/inventory handler: the response returned
  apipc,           \* /api/inventory handler: "start", "gviz", "export" or "done"
  hashInput,       \* fallback id: rawString
  hashPos,         \* fallback id: loop index i (characters consumed)
  hashShift,       \* fallback id: hash, by the shift form of the code
  hashMul,         \* fallback id: h, by the multiply-by-31 form
  hashId,          \* fallback id: the id once the loop has ended
  hpc              \* fallback id: "loop" or "done"

fetchVars == <<sheetSource, mapping, fpc, text, fetchSuccess, requests, outcome>>

resolveVars == <<rHeaderLine, rUserVal, rRole, rIndex, rpc>>

columnVars == <<letter, colIndex, cpc>>

viewVars == <<searchQuery, multiIds, quickFilter, selectedModel, multiText, debounce>>

appVars ==
  <<items, loading, syncing, error, lastUpdated, activeSheetUrl, columnMapping,
    showSettings, intervalClosure, inflight, nextLoadId, arrivals, sheetReplies, viewVars>>

csvVars == <<csvValue, csvLine, csvFields, csvpc>>

rowVars == <<rowHeader, rowLine, rowItem, rowAgain, rowpc>>

statsVars == <<statItems, statResult, statpc>>

apiVars == <<apiRequest, apiUpstream, apiResponse, apipc>>

hashVars == <<hashInput, hashPos, hashShift, hashMul, hashId, hpc>>

\* everything that is not state of the App component
otherVars ==
  <<fetchVars, resolveVars, columnVars, csvVars, rowVars, statsVars, apiVars, hashVars>>

vars == <<appVars, otherVars>>

\* the parts of the state a specification does not use stay at these values
FetchIdle ==
  /\ sheetSource = <<>>
  /\ mapping = EmptyMapping
  /\ fpc = "idle"
  /\ text = <<>>
  /\ fetchSuccess = FALSE
  /\ requests = <<>>
  /\ outcome = Pending

ResolveIdle ==
  /\ rHeaderLine = <<>>
  /\ rUserVal = <<>>
  /\ rRole = [keywords |-> <<>>, fallbackIdx |-> -1]
  /\ rIndex = -1
  /\ rpc = "idle"

ColumnIdle ==
  /\ letter = <<>>
  /\ colIndex = -1
  /\ cpc = "idle"

AppIdle ==
  /\ items = <<>>
  /\ loading = FALSE
  /\ syncing = FALSE
  /\ error = "null"
  /\ lastUpdated = 0
  /\ activeSheetUrl = <<>>
  /\ columnMapping = EmptyMapping
  /\ showSettings = FALSE
  /\ intervalClosure = [url |-> <<>>, mapping |-> EmptyMapping]
  /\ inflight = {}
  /\ nextLoadId = 0
  /\ arrivals = <<>>
  /\ sheetReplies = <<>>
  /\ searchQuery = <<>>
  /\ multiIds = <<>>
  /\ quickFilter = "ALL"
  /\ selectedModel = <<>>
  /\ multiText = <<>>
  /\ debounce = FALSE

CsvIdle ==
  /\ csvValue = <<>>
  /\ csvLine = <<>>
  /\ csvFields = <<>>
  /\ csvpc = "idle"

NotBuilt == [kind |-> "none", item |-> <<>>]

RowIdle ==
  /\ rowHeader = <<>>
  /\ rowLine = <<>>
  /\ rowItem = NotBuilt
  /\ rowAgain = NotBuilt
  /\ rowpc = "idle"

NoStats == [totalItems |-> 0, totalValue |-> Num(0), lowStockCount |-> 0,
            outOfStockCount |-> 0, categories |-> <<>>]

StatsIdle ==
  /\ statItems = <<>>
  /\ statResult = NoStats
  /\ statpc = "idle"

NoResponse == [status |-> 0, contentType |-> "", body |-> <<>>]

ApiIdle ==
  /\ apiRequest = [method |-> "", given |-> FALSE, sheetId |-> <<>>]
  /\ apiUpstream = <<>>
  /\ apiResponse = NoResponse
  /\ apipc = "idle"

HashIdle ==
  /\ hashInput = <<>>
  /\ hashPos = 0
  /\ hashShift = [hi |-> 0, lo |-> 0]
  /\ hashMul = [hi |-> 0, lo |-> 0]
  /\ hashId = <<>>
  /\ hpc = "idle"

\* ------------------------------------------------------------------------
\* fetchInventory as a process: one step per awaited request, then the parse
\* ------------------------------------------------------------------------
Request(strategy, succeeded) ==
  [strategy |-> strategy, sheetId |-> extractSheetId(sheetSource), succeeded |-> succeeded]

FetchInit ==
  /\ sheetSource \in Sources
  /\ mapping \in Mappings
  /\ fpc = "api"
  /\ text = <<>>
  /\ fetchSuccess = FALSE
  /\ requests = <<>>
  /\ outcome = Pending
  /\ ResolveIdle /\ ColumnIdle /\ AppIdle /\ CsvIdle /\ RowIdle
  /\ StatsIdle /\ ApiIdle /\ HashIdle

\* Strategy 1: local API; an HTML answer or an empty body is not a success
StrategyApi ==
  /\ fpc = "api"
  /\ \E threw \in BOOLEAN, ok \in BOOLEAN, contentType \in ContentTypes, body \in Bodies :
       LET readsBody == ~threw /\ ok /\ contentType # <<>>
                          /\ ~includes(contentType, <<"t","e","x","t","/","h","t","m","l">>)
           success   == readsBody /\ Len(body) > 0
                          /\ ~startsWith(toLowerCase(trim(body)), <<"<","!","d","o","c","t","y","p","e">>)
       IN  /\ text' = IF readsBody THEN body ELSE text
           /\ fetchSuccess' = success
           /\ requests' = Append(requests, Request("api", success))
  /\ fpc' = "gviz"
  /\ UNCHANGED <<sheetSource, mapping, outcome, resolveVars, columnVars, appVars, csvVars, rowVars, statsVars, apiVars, hashVars>>

\* mutation: the direct GVIZ request made even after the API succeeded
StrategyGvizAlways ==
  /\ fpc = "gviz"
  /\ \E threw \in BOOLEAN, ok \in BOOLEAN, body \in Bodies :
       LET success == ~threw /\ ok
       IN  /\ text' = IF success THEN body ELSE text
           /\ fetchSuccess' = (fetchSuccess \/ success)
           /\ requests' = Append(requests, Request("gviz", success))
  /\ fpc' = "proxy"
  /\ UNCHANGED <<sheetSource, mapping, outcome, resolveVars, columnVars, appVars, csvVars, rowVars, statsVars, apiVars, hashVars>>

\* Strategy 2: direct GVIZ fetch, only if (!fetchSuccess)
StrategyGviz ==
  /\ fpc = "gviz"
  /\ IF fetchSuccess
     THEN UNCHANGED <<text, fetchSuccess, requests>>
     ELSE \E threw \in BOOLEAN, ok \in BOOLEAN, body \in Bodies :
            LET success == ~threw /\ ok
            IN  /\ text' = IF success THEN body ELSE text
                /\ fetchSuccess' = success
                /\ requests' = Append(requests, Request("gviz", success))
  /\ fpc' = "proxy"
  /\ UNCHANGED <<sheetSource, mapping, outcome, resolveVars, columnVars, appVars, csvVars, rowVars, statsVars, apiVars, hashVars>>

\* Strategy 3: public CORS proxy, only if (!fetchSuccess)
StrategyProxy ==
  /\ fpc = "proxy"
  /\ IF fetchSuccess
     THEN UNCHANGED <<text, fetchSuccess, requests>>
     ELSE \E threw \in BOOLEAN, ok \in BOOLEAN, body \in Bodies :
            LET success == ~threw /\ ok
            IN  /\ text' = IF success THEN body ELSE text
                /\ fetchSuccess' = success
                /\ requests' = Append(requests, Request("proxy", success))
  /\ fpc' = "parse"
  /\ UNCHANGED <<sheetSource, mapping, outcome, resolveVars, columnVars, appVars, csvVars, rowVars, statsVars, apiVars, hashVars>>

\* the guard on the obtained text, the parse pass and the return or throw
ParseStep ==
  /\ fpc = "parse"
  /\ outcome' = parseInventory(fetchSuccess, text, mapping)
  /\ fpc' = "done"
  /\ UNCHANGED <<sheetSource, mapping, text, fetchSuccess, requests, resolveVars, columnVars, appVars, csvVars, rowVars, statsVars, apiVars, hashVars>>

FetchNext == StrategyApi \/ StrategyGviz \/ StrategyProxy \/ ParseStep

SpecFetch == FetchInit /\ [][FetchNext]_vars

\* the parse pass on its own: fetchInventory right after the direct GVIZ request
\* answered ok with the text
ParseInit ==
  /\ sheetSource = <<>>
  /\ mapping \in Mappings
  /\ fpc = "parse"
  /\ text \in ParseTexts
  /\ fetchSuccess = TRUE
  /\ requests = <<Request("api", FALSE), Request("gviz", TRUE)>>
  /\ outcome = Pending
  /\ ResolveIdle /\ ColumnIdle /\ AppIdle /\ CsvIdle /\ RowIdle
  /\ StatsIdle /\ ApiIdle /\ HashIdle

ParseNext == ParseStep

SpecParse == ParseInit /\ [][ParseNext]_vars

\* the parse pass on sheets with a quoted line break, a repeated header line, or
\* rows that carry nothing but a category and a location
NewlineTexts ==
  {<<"S","K","U",",","D","e","s","c","r","i","p","t","i","o","n",",","M","o","d","e","l",",","Q","t","y","\n">> \o before \o row \o after :
     before \in {<<>>, <<"W","0",",","C","a","p",",","B","M","W",",","2","\n">>},
     row \in {<<"X","1",",","\"","W","h","e","e","l","\n","1","8","i","n","\"",",","B","M","W",",","5">>, <<"X","1",",","\"","W","h","e","e","l"," ","1","8","i","n","\"",",","B","M","W",",","5">>,
              <<"\"","X","\n","1","\"",",","R","i","m",",","A","u","d","i",",","0">>, <<"X","1",",","W","h","e","e","l",",","\"","\n","B","M","W","\"",",","9">>},
     after \in {<<>>, <<"\n","Y","2",",","R","i","m",",","A","u","d","i",",","3">>}}

RepeatableHeaders ==
  {<<"S","K","U",",","M","o","d","e","l",",","D","e","s","c","r","i","p","t","i","o","n",",","Q","t","y">>, <<"P","a","r","t"," ","#",",","N","a","m","e",",","G","r","o","u","p",",","S","t","o","c","k">>, <<"D","e","s","c","r","i","p","t","i","o","n",",","Q","t","y">>,
   <<"I","t","e","m",",","M","o","d","e","l",",","T","i","t","l","e",",","S","t","o","c","k">>, <<"a",",","b">>}

RepeatTexts ==
  {h \o <<"\n">> \o row \o <<"\n">> \o h \o after :
     h \in RepeatableHeaders,
     row \in {<<"X","1",",","B","M","W",",","W","h","e","e","l",",","5">>, <<"W","h","e","e","l",",","4">>},
     after \in {<<>>, <<"\n","Y","2",",","A","u","d","i",",","R","i","m",",","3">>}}

GenCategories == {<<>>, <<"A">>, <<"A","-","B">>, <<"A","a">>, <<"B","B">>}

GenLocations == {<<>>, <<"C">>, <<"B","-","C">>}

GenRows == {<<",",",">> \o cat \o <<",">> \o loc \o <<",","5">> : cat \in GenCategories, loc \in GenLocations}

GenTexts ==
  {<<"S","K","U",",","D","e","s","c","r","i","p","t","i","o","n",",","M","o","d","e","l",",","L","o","c",",","Q","t","y","\n">> \o r1 \o <<"\n">> \o r2 : r1 \in GenRows, r2 \in GenRows}

\* sheets that list a SKU twice
DuplicateTexts ==
  {<<"S","K","U",",","D","e","s","c","r","i","p","t","i","o","n",",","M","o","d","e","l",",","Q","t","y","\n">> \o r1 \o <<"\n">> \o r2 :
     r1 \in {<<"X","1",",","W","h","e","e","l",",","B","M","W",",","5">>, <<"Y","2",",","C","a","p",",","B","M","W",",","1">>}, r2 \in {<<"X","1",",","R","i","m",",","A","u","d","i",",","3">>, <<"X","1",",","W","h","e","e","l",",","B","M","W",",","5">>}}

SheetTexts == NewlineTexts \cup RepeatTexts \cup GenTexts \cup DuplicateTexts

SheetInit ==
  /\ sheetSource = <<>>
  /\ mapping = EmptyMapping
  /\ fpc = "parse"
  /\ text \in SheetTexts
  /\ fetchSuccess = TRUE
  /\ requests = <<Request("api", FALSE), Request("gviz", TRUE)>>
  /\ outcome = Pending
  /\ ResolveIdle /\ ColumnIdle /\ AppIdle /\ CsvIdle /\ RowIdle
  /\ StatsIdle /\ ApiIdle /\ HashIdle

SheetNext == ParseStep

SpecSheet == SheetInit /\ [][SheetNext]_vars

\* ------------------------------------------------------------------------
\* resolveIndex and getColumnIndex on their own
\* ------------------------------------------------------------------------
MaxLetters == 2

RECURSIVE LetterStrings(_)
LetterStrings(n) ==
  IF n = 0 THEN {<<>>}
  ELSE {<<>>} \cup {<<UpperAlpha[i]>> \o t : i \in 1..26, t \in LetterStrings(n - 1)}

\* the valid column-letter strings of at most MaxLetters letters
ColumnLetters == LetterStrings(MaxLetters) \ {<<>>}

RoleTable ==
  { [keywords |-> KwModel, fallbackIdx |-> 1],
    [keywords |-> KwSku, fallbackIdx |-> 2],
    [keywords |-> KwPartNum, fallbackIdx |-> -1],
    [keywords |-> KwDetails, fallbackIdx |-> 3],
    [keywords |-> KwImage, fallbackIdx |-> -1],
    [keywords |-> KwQty, fallbackIdx |-> 4],
    [keywords |-> KwAlt, fallbackIdx |-> 6],
    [keywords |-> KwEta(1), fallbackIdx |-> 7],
    [keywords |-> KwEta(2), fallbackIdx |-> 8],
    [keywords |-> KwEta(3), fallbackIdx |-> 9],
    [keywords |-> KwEta(4), fallbackIdx |-> 11],
    [keywords |-> KwEta(5), fallbackIdx |-> 12],
    [keywords |-> KwWeight, fallbackIdx |-> 13],
    [keywords |-> KwShipWeight, fallbackIdx |-> -1] }

UserVals == {<<>>, <<"A">>, <<"b">>, <<"Z">>, <<"A","A">>, <<"a","z">>, <<"B","2">>, <<"1">>, <<" ","c"," ">>, <<"$">>, <<"-">>}

ResolveHeaderLines ==
  { <<"S","K","U",",","M","o","d","e","l",",","D","e","s","c","r","i","p","t","i","o","n",",","Q","t","y">>,
    <<"P","a","r","t","_","N","u","m","b","e","r",","," ","I","t","e","m"," ","C","o","d","e"," ",",","Q","T","Y"," ","o","n"," ","h","a","n","d",",","A","l","t">>,
    <<"a",",","b">>,
    <<"E","T","A"," ","1",",","e","t","a","_","2",",","S","t","o","c","k"," ","Q","t","y",",","S","h","i","p"," ","W","t">>,
    <<"\"","T","y","p","e",","," ","G","r","o","u","p","\"",",","P","r","o","d","u","c","t"," ","T","i","t","l","e",",","P","h","o","t","o"," ","U","R","L",",","m","a","s","s">> }

ResolveInit ==
  /\ rHeaderLine \in ResolveHeaderLines
  /\ rUserVal \in UserVals
  /\ rRole \in RoleTable
  /\ rIndex = -1
  /\ rpc = "call"
  /\ FetchIdle /\ ColumnIdle /\ AppIdle /\ CsvIdle /\ RowIdle
  /\ StatsIdle /\ ApiIdle /\ HashIdle

ResolveCall ==
  /\ rpc = "call"
  /\ rIndex' = resolveIndex(normalizeHeaders(rHeaderLine), rUserVal, rRole.keywords, rRole.fallbackIdx)
  /\ rpc' = "done"
  /\ UNCHANGED <<rHeaderLine, rUserVal, rRole, fetchVars, columnVars, appVars, csvVars, rowVars, statsVars, apiVars, hashVars>>

ResolveNext == ResolveCall

SpecResolve == ResolveInit /\ [][ResolveNext]_vars

ColumnInit ==
  /\ letter \in ColumnLetters
  /\ colIndex = -1
  /\ cpc = "call"
  /\ FetchIdle /\ ResolveIdle /\ AppIdle /\ CsvIdle /\ RowIdle
  /\ StatsIdle /\ ApiIdle /\ HashIdle

ColumnCall ==
  /\ cpc = "call"
  /\ colIndex' = getColumnIndex(letter)
  /\ cpc' = "done"
  /\ UNCHANGED <<letter, fetchVars, resolveVars, appVars, csvVars, rowVars, statsVars, apiVars, hashVars>>

ColumnNext == ColumnCall

SpecColumn == ColumnInit /\ [][ColumnNext]_vars

\* ------------------------------------------------------------------------
\* parseCSVLine on its own, on lines that are one quoted field
\* ------------------------------------------------------------------------
MaxFieldLen == 3

CsvAlphabet == {"a", ",", "\"", " "}

RECURSIVE FieldValues(_)
FieldValues(n) ==
  IF n = 0 THEN {<<>>}
  ELSE {<<>>} \cup {<<c>> \o t : c \in CsvAlphabet, t \in FieldValues(n - 1)}

\* the value written as one quoted CSV field: every quote doubled, quotes around
RECURSIVE doubleQuotes(_)
doubleQuotes(v) ==
  IF v = <<>> THEN <<>>
  ELSE (IF Head(v) = "\"" THEN <<"\"", "\"">> ELSE <<Head(v)>>) \o doubleQuotes(Tail(v))

quoteField(v) == <<"\"">> \o doubleQuotes(v) \o <<"\"">>

CsvValues == FieldValues(MaxFieldLen) \cup {<<"a",",","\"","b","\"","c">>}

CsvInit ==
  /\ csvValue \in CsvValues
  /\ csvLine = quoteField(csvValue)
  /\ csvFields = <<>>
  /\ csvpc = "call"
  /\ FetchIdle /\ ResolveIdle /\ ColumnIdle /\ AppIdle /\ RowIdle
  /\ StatsIdle /\ ApiIdle /\ HashIdle

CsvCall ==
  /\ csvpc = "call"
  /\ csvFields' = parseCSVLine(csvLine)
  /\ csvpc' = "done"
  /\ UNCHANGED <<csvValue, csvLine, fetchVars, resolveVars, columnVars, appVars, rowVars, statsVars, apiVars, hashVars>>

CsvNext == CsvCall

SpecCsv == CsvInit /\ [][CsvNext]_vars

\* ------------------------------------------------------------------------
\* the record builder on its own: the map callback applied to one data line,
\* twice, under the column indices resolved from one header line
\* ------------------------------------------------------------------------
Built(item) == [kind |-> "built", item |-> item]

BuildThrew == [kind |-> "throw", item |-> <<>>]

\* the callback of lines.slice(1).map for one line: the record, or the TypeError
\* at the price cell
buildRow(headerLine, line) ==
  LET ix   == resolveColumns(normalizeHeaders(headerLine), EmptyMapping)
      orig == parseCSVLine(headerLine)
  IN  IF priceThrows(parseCSVLine(line), ix.idxPrice) THEN BuildThrew
      ELSE Built(buildItem(line, ix, orig))

RowHeaders ==
  { <<"S","K","U",",","M","P","N",",","D","e","s","c","r","i","p","t","i","o","n",",","M","o","d","e","l",",","Q","t","y",",","L","o","c",",","E","T","A","1",",","E","T","A","2",",","E","T","A","3",",","E","T","A","4",",","E","T","A","5">>,
    <<"T","i","t","l","e",",","P","a","r","t"," ","#",",","S","t","o","c","k",",","B","i","n",",","C","o","s","t">> }

Csv(cells) == joinWith(cells, <<",">>)

IdRows ==
  {Csv(<<sku, mpn, desc, model, <<"5">>, loc>>) :
     sku \in {<<>>, <<"X","1">>}, mpn \in {<<>>, <<"P","9">>},
     desc \in {<<>>, <<"F","r","o","n","t"," ","B","u","m","p","e","r"," ","(","F","L","O","W"," ","F","O","R","M","I","N","G",")">>, <<"\""," ","\"">>},
     model \in {<<>>, <<"B","M","W">>}, loc \in {<<>>, <<"A","1">>}}

QtyRows ==
  {Csv(<<<<"X","1">>, <<>>, <<"W","h","e","e","l">>, <<"B","M","W">>, qty>>) :
     qty \in QtyCells \cup {<<"1","2"," ","p","c","s">>, <<"-","-","5">>, <<"\"","1",",","0","0","0","\"">>, <<"3",".","5">>}}

EtaCells == {<<>>, <<"3","/","1">>, <<"n","/","a">>}

EtaRows ==
  {Csv(<<<<"X","1">>, <<>>, <<"W","h","e","e","l">>, <<"B","M","W">>, <<"5">>, <<"A","1">>, e1, e2, e3, e4, e5>>) :
     e1 \in EtaCells, e2 \in EtaCells, e3 \in EtaCells, e4 \in EtaCells, e5 \in EtaCells}
    \cup {Csv(<<<<"X","1">>, <<>>, <<"W","h","e","e","l">>, <<"B","M","W">>, <<"5">>, <<"A","1">>>> \o slots) :
            slots \in {<<<<"3","/","1">>, <<"N","/","A">>, <<>>, <<"3","/","1","5">>, <<"n","/","a">>>>,
                       <<<<" ","N","/","a"," ">>, <<"T","B","D">>, <<"\"","M","a","r"," ","1",","," ","2","0","2","5","\"">>>>}}

DescRows ==
  {Csv(<<<<>>, <<>>, pre \o tag \o post, <<"B","M","W">>, <<"5">>>>) :
     pre \in {<<>>, <<"W","h","e","e","l">>, <<"W","h","e","e","l"," ">>, <<"R","i","m"," "," ","x"," ","\t">>},
     tag \in {<<>>, <<"(","F","L","O","W"," ","F","O","R","M","I","N","G",")">>, <<"("," ","f","l","o","w"," "," "," ","f","o","r","m","i","n","g"," ",")">>, <<"(","F","l","o","w","F","o","r","m","i","n","g",")">>,
              <<"(","N","e","w"," ","A","r","r","i","v","e",")">>, <<"(","n","e","w"," ","a","r","r","i","v","e",")"," ","(","F","L","O","W"," ","F","O","R","M","I","N","G",")">>,
              <<"(","F","L","O","W"," ","(","n","e","w"," ","a","r","r","i","v","e",")"," ","F","O","R","M","I","N","G",")">>},
     post \in {<<>>, <<" ","1","8","i","n">>, <<" "," ">>}}

RowInputs == IdRows \cup QtyRows \cup EtaRows \cup DescRows \cup {<<"W","h","e","e","l",",","P","9">>}

RowInit ==
  /\ rowHeader \in RowHeaders
  /\ rowLine \in RowInputs
  /\ rowItem = NotBuilt
  /\ rowAgain = NotBuilt
  /\ rowpc = "call"
  /\ FetchIdle /\ ResolveIdle /\ ColumnIdle /\ AppIdle /\ CsvIdle
  /\ StatsIdle /\ ApiIdle /\ HashIdle

\* the first run of the builder on the line
BuildRow ==
  /\ rowpc = "call"
  /\ rowItem' = buildRow(rowHeader, rowLine)
  /\ rowpc' = "built"
  /\ UNCHANGED <<rowHeader, rowLine, rowAgain, fetchVars, resolveVars, columnVars, appVars, csvVars, statsVars, apiVars, hashVars>>

\* mutation: the second run takes its fallback id from the number of runs so far
BuildRowAgainCounting ==
  /\ rowpc = "built"
  /\ rowAgain' =
       LET r == buildRow(rowHeader, rowLine)
       IN  IF r.kind = "built" /\ startsWith(r.item.id, <<"G","E","N","-">>)
           THEN Built([r.item EXCEPT !.id = <<"G","E","N","-","2">>])
           ELSE r
  /\ rowpc' = "again"
  /\ UNCHANGED <<rowHeader, rowLine, rowItem, fetchVars, resolveVars, columnVars, appVars, csvVars, statsVars, apiVars, hashVars>>

\* the second run of the builder on the same line
BuildRowAgain ==
  /\ rowpc = "built"
  /\ rowAgain' = buildRow(rowHeader, rowLine)
  /\ rowpc' = "again"
  /\ UNCHANGED <<rowHeader, rowLine, rowItem, fetchVars, resolveVars, columnVars, appVars, csvVars, statsVars, apiVars, hashVars>>

RowNext == BuildRow \/ BuildRowAgain

SpecRow == RowInit /\ [][RowNext]_vars

\* ------------------------------------------------------------------------
\* App.tsx: loadData, handleSaveSettings, the polling effect, manual refresh
\* ------------------------------------------------------------------------
MaxLoads == 2

DEFAULT_SHEET ==
  <<"h","t","t","p","s",":","/","/","d","o","c","s",".","g","o","o","g","l","e",".","c","o","m","/","s","p","r","e","a","d","s","h","e","e","t","s","/","d","/","1","0","V","F","9","Y","k","-","r","9","p","I","N","t","t","n","g","Y","z","8","M","N","X","F","k","-","u","j","P","A","v","v","O","u","k","F","7","Y","p","f","4","L","B","g","/","e","d","i","t","?","u","s","p","=","s","h","a","r","i","n","g">>

GenericError ==
  "Unable to load inventory data. Please check the sheet settings and ensure the URL is correct."

AppUrls == {DEFAULT_SHEET, <<"s","h","e","e","t","_","2">>}

AppMappings == {EmptyMapping, [EmptyMapping EXCEPT !["sku"] = <<"B">>]}

\* what the sheet behind a sheet id may hold when a request reads it
SheetBodies(sheetId) ==
  IF sheetId = DEFAULT_SHEET_ID
  THEN {<<"S","K","U",",","M","o","d","e","l",",","Q","t","y","\n","D","1",",","B","M","W",",","5">>, <<"S","K","U",",","M","o","d","e","l",",","Q","t","y","\n","D","1",",","B","M","W",",","0","\n","D","2",",",",","9">>}
  ELSE {<<"s","k","u",",","m","o","d","e","l",",","q","t","y","\n","S","1",",","A","u","d","i",",","3">>}

\* what fetchInventory(url, mapping) may settle with
FetchOutcomes(url, map) ==
  {RetrievalError} \cup {parseInventory(TRUE, body, map) : body \in SheetBodies(extractSheetId(url))}

Load(id, url, map, isBackground) ==
  [id |-> id, url |-> url, mapping |-> map, isBackground |-> isBackground]

\* the state after the first render and the mount effect: loadData() is awaiting
\* and the interval is set
AppInit ==
  /\ items = <<>>
  /\ loading = TRUE
  /\ syncing = FALSE
  /\ error = "null"
  /\ lastUpdated = 0
  /\ activeSheetUrl = DEFAULT_SHEET
  /\ columnMapping = EmptyMapping
  /\ showSettings = FALSE
  /\ intervalClosure = [url |-> DEFAULT_SHEET, mapping |-> EmptyMapping]
  /\ inflight = {Load(1, DEFAULT_SHEET, EmptyMapping, FALSE)}
  /\ nextLoadId = 2
  /\ arrivals = <<>>
  /\ sheetReplies = [u \in AppUrls, m \in AppMappings |-> FetchOutcomes(u, m)]
  /\ searchQuery = <<>>
  /\ multiIds = <<>>
  /\ quickFilter = "ALL"
  /\ selectedModel = <<>>
  /\ multiText = <<>>
  /\ debounce = TRUE
  /\ FetchIdle /\ ResolveIdle /\ ColumnIdle /\ CsvIdle /\ RowIdle
  /\ StatsIdle /\ ApiIdle /\ HashIdle

\* setInterval(() => loadData(true), 30000): the loadData of the render in
\* which the effect ran
PollTick ==
  /\ nextLoadId <= MaxLoads
  /\ syncing' = TRUE
  /\ inflight' = inflight \cup {Load(nextLoadId, intervalClosure.url, intervalClosure.mapping, TRUE)}
  /\ nextLoadId' = nextLoadId + 1
  /\ UNCHANGED <<items, loading, error, lastUpdated, activeSheetUrl, columnMapping,
                 showSettings, intervalClosure, arrivals>>
  /\ UNCHANGED <<sheetReplies, viewVars, otherVars>>

\* onRefresh={() => loadData(true)}: the loadData of the current render
ManualRefresh ==
  /\ nextLoadId <= MaxLoads
  /\ syncing' = TRUE
  /\ inflight' = inflight \cup {Load(nextLoadId, activeSheetUrl, columnMapping, TRUE)}
  /\ nextLoadId' = nextLoadId + 1
  /\ UNCHANGED <<items, loading, error, lastUpdated, activeSheetUrl, columnMapping,
                 showSettings, intervalClosure, arrivals>>
  /\ UNCHANGED <<sheetReplies, viewVars, otherVars>>

OpenSettings ==
  /\ ~showSettings
  /\ showSettings' = TRUE
  /\ UNCHANGED <<items, loading, syncing, error, lastUpdated, activeSheetUrl, columnMapping,
                 intervalClosure, inflight, nextLoadId, arrivals>>
  /\ UNCHANGED <<sheetReplies, viewVars, otherVars>>

CloseSettings ==
  /\ showSettings
  /\ showSettings' = FALSE
  /\ UNCHANGED <<items, loading, syncing, error, lastUpdated, activeSheetUrl, columnMapping,
                 intervalClosure, inflight, nextLoadId, arrivals>>
  /\ UNCHANGED <<sheetReplies, viewVars, otherVars>>

\* handleSaveSettings and the render it causes: a changed url re-runs the
\* effect (loadData() and a new interval, both seeing the new url and mapping);
\* an unchanged url calls the loadData of the current render, which still sees
\* the mapping from before setColumnMapping
handleSaveSettings(newUrl, newMapping) ==
  /\ showSettings
  /\ nextLoadId <= MaxLoads
  /\ showSettings' = FALSE
  /\ columnMapping' = newMapping
  /\ loading' = TRUE
  /\ nextLoadId' = nextLoadId + 1
  /\ IF newUrl # activeSheetUrl
     THEN /\ activeSheetUrl' = newUrl
          /\ intervalClosure' = [url |-> newUrl, mapping |-> newMapping]
          /\ inflight' = inflight \cup {Load(nextLoadId, newUrl, newMapping, FALSE)}
     ELSE /\ inflight' = inflight \cup {Load(nextLoadId, activeSheetUrl, columnMapping, FALSE)}
          /\ UNCHANGED <<activeSheetUrl, intervalClosure>>
  /\ UNCHANGED <<items, syncing, error, lastUpdated, arrivals>>
  /\ UNCHANGED <<sheetReplies, viewVars, otherVars>>

SaveSettings == \E newUrl \in AppUrls, newMapping \in AppMappings : handleSaveSettings(newUrl, newMapping)

Arrival(l, ok, data) ==
  [id |-> l.id, url |-> l.url, isBackground |-> l.isBackground, ok |-> ok, data |-> data]

\* mutation: the arriving records appended to the displayed ones
LoadResolveMerging(l, data) ==
  /\ l \in inflight
  /\ Returned(data) \in sheetReplies[l.url, l.mapping]
  /\ items' = items \o data
  /\ lastUpdated' = Len(arrivals) + 1
  /\ error' = "null"
  /\ loading' = FALSE
  /\ syncing' = FALSE
  /\ inflight' = inflight \ {l}
  /\ arrivals' = Append(arrivals, Arrival(l, TRUE, data))
  /\ UNCHANGED <<activeSheetUrl, columnMapping, showSettings, intervalClosure, nextLoadId>>
  /\ UNCHANGED <<sheetReplies, viewVars, otherVars>>

\* loadData after the await, try branch and finally
LoadResolve(l, data) ==
  /\ l \in inflight
  /\ Returned(data) \in sheetReplies[l.url, l.mapping]
  /\ items' = data
  /\ lastUpdated' = Len(arrivals) + 1
  /\ error' = "null"
  /\ loading' = FALSE
  /\ syncing' = FALSE
  /\ inflight' = inflight \ {l}
  /\ arrivals' = Append(arrivals, Arrival(l, TRUE, data))
  /\ UNCHANGED <<activeSheetUrl, columnMapping, showSettings, intervalClosure, nextLoadId>>
  /\ UNCHANGED <<sheetReplies, viewVars, otherVars>>

\* mutation: a failed load clears the displayed records
LoadRejectClearing(l) ==
  /\ l \in inflight
  /\ \E o \in sheetReplies[l.url, l.mapping] : o.kind = "throw"
  /\ items' = <<>>
  /\ error' = IF l.isBackground THEN error ELSE GenericError
  /\ loading' = FALSE
  /\ syncing' = FALSE
  /\ inflight' = inflight \ {l}
  /\ arrivals' = Append(arrivals, Arrival(l, FALSE, <<>>))
  /\ UNCHANGED <<lastUpdated, activeSheetUrl, columnMapping, showSettings,
                 intervalClosure, nextLoadId>>
  /\ UNCHANGED <<sheetReplies, viewVars, otherVars>>

\* mutation: the catch branch without setError
LoadRejectSilent(l) ==
  /\ l \in inflight
  /\ \E o \in sheetReplies[l.url, l.mapping] : o.kind = "throw"
  /\ loading' = FALSE
  /\ syncing' = FALSE
  /\ inflight' = inflight \ {l}
  /\ arrivals' = Append(arrivals, Arrival(l, FALSE, <<>>))
  /\ UNCHANGED <<items, error, lastUpdated, activeSheetUrl, columnMapping, showSettings,
                 intervalClosure, nextLoadId>>
  /\ UNCHANGED <<sheetReplies, viewVars, otherVars>>

\* mutation: the catch branch without the finally block
LoadRejectNoFinally(l) ==
  /\ l \in inflight
  /\ \E o \in sheetReplies[l.url, l.mapping] : o.kind = "throw"
  /\ error' = IF l.isBackground THEN error ELSE GenericError
  /\ inflight' = inflight \ {l}
  /\ arrivals' = Append(arrivals, Arrival(l, FALSE, <<>>))
  /\ UNCHANGED <<items, loading, syncing, lastUpdated, activeSheetUrl, columnMapping,
                 showSettings, intervalClosure, nextLoadId>>
  /\ UNCHANGED <<sheetReplies, viewVars, otherVars>>

\* loadData after the await, catch branch and finally
LoadReject(l) ==
  /\ l \in inflight
  /\ \E o \in sheetReplies[l.url, l.mapping] : o.kind = "throw"
  /\ error' = IF l.isBackground THEN error ELSE GenericError
  /\ loading' = FALSE
  /\ syncing' = FALSE
  /\ inflight' = inflight \ {l}
  /\ arrivals' = Append(arrivals, Arrival(l, FALSE, <<>>))
  /\ UNCHANGED <<items, lastUpdated, activeSheetUrl, columnMapping, showSettings,
                 intervalClosure, nextLoadId>>
  /\ UNCHANGED <<sheetReplies, viewVars, otherVars>>

\* ------------------------------------------------------------------------
\* App.tsx and SearchControls: search, stat cards, model ribbon, Reset All
\* ------------------------------------------------------------------------
SearchTexts == {<<>>, <<"d","1",","," ","x","9","\n">>}

IsSeparator(c) == IsSpace(c) \/ c = ","

\* multiText.split(/[\n,\t\s]+/).map(s => s.trim()).filter(s => s.length > 0)
RECURSIVE splitTerms(_, _, _, _)
splitTerms(s, i, cur, acc) ==
  IF i > Len(s) THEN (IF cur = <<>> THEN acc ELSE Append(acc, cur))
  ELSE IF IsSeparator(s[i])
       THEN splitTerms(s, i + 1, <<>>, IF cur = <<>> THEN acc ELSE Append(acc, cur))
       ELSE splitTerms(s, i + 1, Append(cur, s[i]), acc)

\* the members of the sorted array uniqueModels
uniqueModels ==
  {items[i].category : i \in 1..Len(items)} \ {<<>>, <<"U","n","c","a","t","e","g","o","r","i","z","e","d">>}

isSearchActive == Len(trim(searchQuery)) > 0 \/ Len(multiIds) > 0

isFilterActive == quickFilter # "ALL" \/ selectedModel # <<>>

\* the onSearch prop of SearchControls
onSearch(q, ids) ==
  /\ searchQuery' = q
  /\ multiIds' = ids
  /\ IF Len(trim(q)) > 0 \/ Len(ids) > 0
     THEN quickFilter' = "ALL" /\ selectedModel' = <<>>
     ELSE UNCHANGED <<quickFilter, selectedModel>>

handleSearch == onSearch(<<>>, splitTerms(multiText, 1, <<>>, <<>>))

AppRest ==
  <<items, loading, syncing, error, lastUpdated, activeSheetUrl, columnMapping,
    showSettings, intervalClosure, inflight, nextLoadId, arrivals, sheetReplies>>

\* onChange of the textarea; the effect on [multiText] restarts the timer
TypeText ==
  /\ \E t \in SearchTexts : t # multiText /\ multiText' = t
  /\ debounce' = TRUE
  /\ UNCHANGED <<searchQuery, multiIds, quickFilter, selectedModel, AppRest, otherVars>>

\* the 500 ms timer fires
DebounceFire ==
  /\ debounce
  /\ handleSearch
  /\ debounce' = FALSE
  /\ UNCHANGED <<multiText, AppRest, otherVars>>

\* Enter in the textarea, or the Find Items button
SubmitSearch ==
  /\ handleSearch
  /\ UNCHANGED <<multiText, debounce, AppRest, otherVars>>

handleStatFilter(filter) ==
  /\ quickFilter' = filter
  /\ searchQuery' = <<>>
  /\ multiIds' = <<>>

\* a click on one of the stat cards
StatCardClick ==
  /\ \E filter \in {"ALL", "LOW", "OUT"} : handleStatFilter(filter)
  /\ UNCHANGED <<selectedModel, multiText, debounce, AppRest, otherVars>>

\* mutation: selecting a model leaves the search as it is
onSelectModelKeepSearch(model) ==
  /\ selectedModel' = model
  /\ UNCHANGED <<searchQuery, multiIds>>

\* the onSelectModel prop of ModelRibbon
onSelectModel(model) ==
  /\ selectedModel' = model
  /\ IF model # <<>>
     THEN searchQuery' = <<>> /\ multiIds' = <<>>
     ELSE UNCHANGED <<searchQuery, multiIds>>

\* ModelRibbon, rendered when there are models: ALL MODELS / Clear Filter give
\* null, a model button toggles that model
ModelRibbonClick ==
  /\ uniqueModels # {}
  /\ \E model \in uniqueModels \cup {<<>>} :
       onSelectModel(IF model = selectedModel THEN <<>> ELSE model)
  /\ UNCHANGED <<quickFilter, multiText, debounce, AppRest, otherVars>>

\* the Reset All button, shown with the list when a filter is active
ResetAll ==
  /\ ~(loading /\ Len(items) = 0)
  /\ isFilterActive
  /\ handleStatFilter("ALL")
  /\ selectedModel' = <<>>
  /\ UNCHANGED <<multiText, debounce, AppRest, otherVars>>

LoadResolveStep ==
  \E l \in inflight : \E o \in sheetReplies[l.url, l.mapping] :
    o.kind = "return" /\ LoadResolve(l, o.items)

LoadRejectStep == \E l \in inflight : LoadReject(l)

Next ==
  \/ PollTick
  \/ ManualRefresh
  \/ OpenSettings
  \/ CloseSettings
  \/ SaveSettings
  \/ LoadResolveStep
  \/ LoadRejectStep

\* ------------------------------------------------------------------------
\* the fallback hash, one character per step, next to hash * 31 + char
\* ------------------------------------------------------------------------
MaxHashLen == 2

HashAlphabet == {"A", "z", " "}

RECURSIVE HashStrings(_)
HashStrings(n) ==
  IF n = 0 THEN {<<>>}
  ELSE HashStrings(n - 1) \cup {Append(w, c) : w \in HashStrings(n - 1), c \in HashAlphabet}

HashCategories == {<<"U","n","c","a","t","e","g","o","r","i","z","e","d">>, <<"B","M","W">>, <<"z","z","z","z","z","z","z","z">>, <<"A">>}

\* `${category}-${getVal(idxLoc)}`
HashInputs == {category \o <<"-">> \o loc : category \in HashCategories, loc \in HashStrings(MaxHashLen)}

\* hash * 31 + char wrapped to 32 bits, on the halves of the word
hashTimes31(h, char) ==
  LET t == h.lo * 31 + char
  IN  [hi |-> (h.hi * 31 + (t \div 65536)) % 65536, lo |-> t % 65536]

HashInit ==
  /\ hashInput \in HashInputs
  /\ hashPos = 0
  /\ hashShift = [hi |-> 0, lo |-> 0]
  /\ hashMul = [hi |-> 0, lo |-> 0]
  /\ hashId = <<>>
  /\ hpc = "loop"
  /\ FetchIdle /\ ResolveIdle /\ ColumnIdle /\ CsvIdle /\ RowIdle /\ AppIdle
  /\ StatsIdle /\ ApiIdle

\* one pass of the for loop
HashChar ==
  /\ hpc = "loop"
  /\ hashPos < Len(hashInput)
  /\ hashShift' = hashStep(hashShift, charCodeAt(hashInput[hashPos + 1]))
  /\ hashMul' = hashTimes31(hashMul, charCodeAt(hashInput[hashPos + 1]))
  /\ hashPos' = hashPos + 1
  /\ UNCHANGED <<hashInput, hashId, hpc>>
  /\ UNCHANGED <<fetchVars, resolveVars, columnVars, appVars, csvVars, rowVars, statsVars, apiVars>>

\* id = `GEN-${Math.abs(hash)}`
HashFinish ==
  /\ hpc = "loop"
  /\ hashPos = Len(hashInput)
  /\ hashId' = <<"G","E","N","-">> \o decimalDigits(hashAbs(hashShift), <<>>)
  /\ hpc' = "done"
  /\ UNCHANGED <<hashInput, hashPos, hashShift, hashMul>>
  /\ UNCHANGED <<fetchVars, resolveVars, columnVars, appVars, csvVars, rowVars, statsVars, apiVars>>

HashNext == HashChar \/ HashFinish

SpecHash == HashInit /\ [][HashNext]_vars

\* ------------------------------------------------------------------------
\* the /api/inventory edge handler
\* ------------------------------------------------------------------------
ApiMethods == {"GET", "POST", "OPTIONS"}

\* url.searchParams.get('sheetId'): null when the parameter is not given
ApiSheetIds == {<<>>, <<"a","b","c">>, <<"1","0","V","F">>}

ApiRequests ==
  {[method |-> m, given |-> FALSE, sheetId |-> <<>>] : m \in ApiMethods}
  \cup {[method |-> m, given |-> TRUE, sheetId |-> id] : m \in ApiMethods, id \in ApiSheetIds}

ApiBodies == {<<"s","k","u",",","q","t","y","\n","X","1",",","5">>, <<"<","h","t","m","l",">">>}

\* what an upstream fetch may do: throw, or resolve with a status that is ok
\* or not and a body whose reading gives a text or throws
Upstream(threw, ok, readable, body) ==
  [threw |-> threw, ok |-> ok, readable |-> readable, body |-> body]

UpstreamOutcomes ==
  {Upstream(TRUE, FALSE, FALSE, <<>>)}
  \cup {Upstream(FALSE, ok, TRUE, body) : ok \in BOOLEAN, body \in ApiBodies}
  \cup {Upstream(FALSE, ok, FALSE, <<>>) : ok \in BOOLEAN}

gvizUrl(sheetId) == <<"h","t","t","p","s",":","/","/","d","o","c","s",".","g","o","o","g","l","e",".","c","o","m","/","s","p","r","e","a","d","s","h","e","e","t","s","/","d","/">> \o sheetId \o <<"/","g","v","i","z","/","t","q","?","t","q","x","=","o","u","t",":","c","s","v">>

exportUrl(sheetId) == <<"h","t","t","p","s",":","/","/","d","o","c","s",".","g","o","o","g","l","e",".","c","o","m","/","s","p","r","e","a","d","s","h","e","e","t","s","/","d","/">> \o sheetId \o <<"/","e","x","p","o","r","t","?","f","o","r","m","a","t","=","c","s","v">>

UpstreamRequest(url, res) == [url |-> url, outcome |-> res]

Response(status, contentType, body) == [status |-> status, contentType |-> contentType, body |-> body]

\* the try block of an attempt returned the 200 response
attemptReturns(res) == ~res.threw /\ res.ok /\ res.readable

successResponse(res) == Response(200, "text/csv; charset=utf-8", res.body)

ApiInit ==
  /\ apiRequest \in ApiRequests
  /\ apiUpstream = <<>>
  /\ apiResponse = NoResponse
  /\ apipc = "start"
  /\ FetchIdle /\ ResolveIdle /\ ColumnIdle /\ CsvIdle /\ RowIdle /\ AppIdle
  /\ StatsIdle /\ HashIdle

ApiRest == <<fetchVars, resolveVars, columnVars, appVars, csvVars, rowVars, statsVars, hashVars>>

\* handler up to the first await: preflight, missing sheetId, or on to GVIZ
ApiStart ==
  /\ apipc = "start"
  /\ IF apiRequest.method = "OPTIONS"
     THEN apiResponse' = Response(204, "", <<>>) /\ apipc' = "done"
     ELSE IF ~apiRequest.given \/ apiRequest.sheetId = <<>>
     THEN /\ apiResponse' = Response(400, "application/json", <<"{","\"","e","r","r","o","r","\"",":","\"","M","i","s","s","i","n","g"," ","s","h","e","e","t","I","d"," ","p","a","r","a","m","e","t","e","r","\"","}">>)
          /\ apipc' = "done"
     ELSE apiResponse' = apiResponse /\ apipc' = "gviz"
  /\ UNCHANGED <<apiRequest, apiUpstream, ApiRest>>

\* mutation: attempt 1 without the response.ok test
ApiGvizAnyStatus ==
  /\ apipc = "gviz"
  /\ \E res \in UpstreamOutcomes :
       /\ apiUpstream' = Append(apiUpstream, UpstreamRequest(gvizUrl(apiRequest.sheetId), res))
       /\ IF ~res.threw /\ res.readable
          THEN apiResponse' = successResponse(res) /\ apipc' = "done"
          ELSE apiResponse' = apiResponse /\ apipc' = "export"
  /\ UNCHANGED <<apiRequest, ApiRest>>

\* attempt 1: GVIZ
ApiGviz ==
  /\ apipc = "gviz"
  /\ \E res \in UpstreamOutcomes :
       /\ apiUpstream' = Append(apiUpstream, UpstreamRequest(gvizUrl(apiRequest.sheetId), res))
       /\ IF attemptReturns(res)
          THEN apiResponse' = successResponse(res) /\ apipc' = "done"
          ELSE apiResponse' = apiResponse /\ apipc' = "export"
  /\ UNCHANGED <<apiRequest, ApiRest>>

\* attempt 2: Export, and the 502 after it
ApiExport ==
  /\ apipc = "export"
  /\ \E res \in UpstreamOutcomes :
       /\ apiUpstream' = Append(apiUpstream, UpstreamRequest(exportUrl(apiRequest.sheetId), res))
       /\ apiResponse' =
            IF attemptReturns(res) THEN successResponse(res)
            ELSE Response(502, "application/json",
                          <<"{","\"","e","r","r","o","r","\"",":","\"","F","a","i","l","e","d"," ","t","o"," ","r","e","t","r","i","e","v","e"," ","i","n","v","e","n","t","o","r","y"," ","s","h","e","e","t","."," ","E","n","s","u","r","e"," ","i","t"," ","i","s"," ","p","u","b","l","i","c"," ","o","r"," ","t","h","e"," ","l","i","n","k"," ","i","s"," ","c","o","r","r","e","c","t",".","\"","}">>)
  /\ apipc' = "done"
  /\ UNCHANGED <<apiRequest, ApiRest>>

ApiNext == ApiStart \/ ApiGviz \/ ApiExport

SpecApi == ApiInit /\ [][ApiNext]_vars

\* ------------------------------------------------------------------------
\* calculateStats and the stats of the App (useMemo over the items)
\* ------------------------------------------------------------------------
MaxStatRows == 2

\* the property names a plain object inherits from Object.prototype
InheritedKeys ==
  {<<"c","o","n","s","t","r","u","c","t","o","r">>, <<"t","o","S","t","r","i","n","g">>, <<"t","o","L","o","c","a","l","e","S","t","r","i","n","g">>, <<"v","a","l","u","e","O","f">>, <<"h","a","s","O","w","n","P","r","o","p","e","r","t","y">>,
   <<"i","s","P","r","o","t","o","t","y","p","e","O","f">>, <<"p","r","o","p","e","r","t","y","I","s","E","n","u","m","e","r","a","b","l","e">>, <<"_","_","p","r","o","t","o","_","_">>, <<"_","_","d","e","f","i","n","e","G","e","t","t","e","r","_","_">>,
   <<"_","_","d","e","f","i","n","e","S","e","t","t","e","r","_","_">>, <<"_","_","l","o","o","k","u","p","G","e","t","t","e","r","_","_">>, <<"_","_","l","o","o","k","u","p","S","e","t","t","e","r","_","_">>}

\* the values a property of categories can hold: a number, or the string made
\* of the text of an inherited value followed by `ones` characters "1"
Count(n) == [num |-> TRUE, n |-> n, ones |-> 0]

InheritedText(ones) == [num |-> FALSE, n |-> 0, ones |-> ones]

\* (categories[cat] || 0) + 1
nextCount(categories, cat) ==
  IF cat \in DOMAIN categories
  THEN IF categories[cat].num
       THEN Count(categories[cat].n + 1)
       ELSE InheritedText(categories[cat].ones + 1)
  ELSE IF cat \in InheritedKeys THEN InheritedText(1)
  ELSE Count(1)

\* categories[cat] = value: the __proto__ setter ignores a string
assignCount(categories, cat, value) ==
  IF cat = <<"_","_","p","r","o","t","o","_","_">> THEN categories
  ELSE [k \in DOMAIN categories \cup {cat} |-> IF k = cat THEN value ELSE categories[k]]

RECURSIVE countCategories(_, _, _)
countCategories(list, i, categories) ==
  IF i > Len(list) THEN categories
  ELSE LET cat == IF list[i].category = <<>> THEN <<"U","n","c","a","t","e","g","o","r","i","z","e","d">> ELSE list[i].category
       IN  countCategories(list, i + 1, assignCount(categories, cat, nextCount(categories, cat)))

\* a price of at most two fraction digits in hundredths
hundredths(price) ==
  price.whole * 100
  + (IF Len(price.frac) >= 1 THEN DigitVal(price.frac[1]) * 10 ELSE 0)
  + (IF Len(price.frac) >= 2 THEN DigitVal(price.frac[2]) ELSE 0)

\* sum + item.price * item.quantity, in hundredths; NaN when a factor is NaN
RECURSIVE sumValue(_, _, _)
sumValue(list, i, sum) ==
  IF i > Len(list) THEN sum
  ELSE sumValue(list, i + 1,
         IF sum.nan \/ list[i].price.nan \/ list[i].quantity.nan THEN NaN
         ELSE Num(sum.val + hundredths(list[i].price) * list[i].quantity.val))

calculateStats(list) ==
  [totalItems      |-> Len(list),
   totalValue      |-> sumValue(list, 1, Num(0)),
   lowStockCount   |-> Len(SelectSeq(list, LAMBDA i : i.status = "Low Stock")),
   outOfStockCount |-> Len(SelectSeq(list, LAMBDA i : i.status = "Out of Stock")),
   categories      |-> countCategories(list, 1, <<>>)]

StatModels == {<<"B","M","W">>, <<>>, <<"c","o","n","s","t","r","u","c","t","o","r">>, <<"_","_","p","r","o","t","o","_","_">>}

StatRows ==
  {sku \o <<",">> \o model \o <<",","W","h","e","e","l",",">> \o qp :
     sku \in {<<"X","1">>, <<"Y","2">>}, model \in StatModels, qp \in {<<"0",",">>, <<"5",",","2",".","5">>, <<"9",",","1","0">>}}

RECURSIVE StatBodies(_)
StatBodies(n) ==
  IF n = 0 THEN {<<>>}
  ELSE StatBodies(n - 1) \cup {b \o <<"\n">> \o r : b \in StatBodies(n - 1), r \in StatRows}

StatTexts == {<<"S","K","U",",","M","o","d","e","l",",","D","e","s","c","r","i","p","t","i","o","n",",","Q","t","y",",","P","r","i","c","e">> \o b : b \in StatBodies(MaxStatRows)}

\* a render with the collection a load delivered
StatsInit ==
  /\ statItems \in {parseInventory(TRUE, t, EmptyMapping).items : t \in StatTexts}
  /\ statResult = NoStats
  /\ statpc = "render"
  /\ FetchIdle /\ ResolveIdle /\ ColumnIdle /\ CsvIdle /\ RowIdle /\ AppIdle
  /\ ApiIdle /\ HashIdle

\* const stats = useMemo(() => calculateStats(accessibleItems), [accessibleItems])
CalcStats ==
  /\ statpc = "render"
  /\ statResult' = calculateStats(statItems)
  /\ statpc' = "shown"
  /\ UNCHANGED <<statItems, fetchVars, resolveVars, columnVars, appVars, csvVars, rowVars, apiVars, hashVars>>

StatsNext == CalcStats

SpecStats == StatsInit /\ [][StatsNext]_vars

Init == AppInit

Spec == Init /\ [][Next]_vars

\* the loads together with the search box, the stat cards, the model ribbon
\* and Reset All
ViewNext ==
  \/ Next
  \/ TypeText
  \/ DebounceFire
  \/ SubmitSearch
  \/ StatCardClick
  \/ ModelRibbonClick
  \/ ResetAll

SpecView == Init /\ [][ViewNext]_vars

\* every request the fetch layer was given eventually resolves or rejects
LoadSettles(id) ==
  \E l \in inflight :
    /\ l.id = id
    /\ \/ \E o \in sheetReplies[l.url, l.mapping] : o.kind = "return" /\ LoadResolve(l, o.items)
       \/ LoadReject(l)

SpecLive == Init /\ [][Next]_vars /\ \A id \in 1..MaxLoads : WF_vars(LoadSettles(id))

\* ------------------------------------------------------------------------
\* Properties
\* ------------------------------------------------------------------------
\* C1: every record built by fetchInventory has its status fixed by its
\* quantity: Out of Stock exactly when quantity <= 0, Low Stock exactly when
\* 1 <= quantity <= 7, In Stock exactly when quantity >= 8.
C1_StatusByQuantity ==
  (fpc = "done" /\ outcome.kind = "return") =>
    \A i \in 1..Len(outcome.items) :
      LET q  == outcome.items[i].quantity
          st == outcome.items[i].status
      IN  /\ (st = "Out of Stock") <=> JsLe(q, Num(0))
          /\ (st = "Low Stock") <=> (JsLe(Num(1), q) /\ JsLe(q, Num(7)))
          /\ (st = "In Stock") <=> JsLe(Num(8), q)

\* C2: every record of the returned collection has a non-empty id, and so has
\* every record the builder produced before the filter, also for a row with no
\* SKU, no part number and no description.
C2_IdNonEmpty ==
  (fpc = "done" /\ outcome.kind = "return") =>
    /\ \A i \in 1..Len(outcome.items) : Len(outcome.items[i].id) > 0
    /\ Len(nonEmptyLines(text)) >= 2 =>
         \A k \in 1..Len(builtItems(text, mapping)) : Len(builtItems(text, mapping)[k].id) > 0

\* a returned record whose id is the generated one: the row had no SKU, no part
\* number and no description
C2_Witness ==
  /\ fpc = "done"
  /\ outcome.kind = "return"
  /\ \E i \in 1..Len(outcome.items) :
       /\ startsWith(outcome.items[i].id, <<"G","E","N","-">>)
       /\ outcome.items[i].sku = <<>>
       /\ outcome.items[i].partNumber = <<>>
       /\ outcome.items[i].name = <<>>

\* C3: a malformed data row never makes the parse fail: once text with a
\* header and data lines has been obtained, fetchInventory returns a collection.
C3_MalformedRowNeverThrows ==
  (fpc = "done" /\ fetchSuccess /\ Len(nonEmptyLines(text)) >= 2) => outcome.kind = "return"

StrategyOrder == <<"api", "gviz", "proxy">>

\* the strategies are requested in the fixed order, each only after every
\* earlier one did not succeed
InOrderAfterFailures ==
  /\ Len(requests) <= 3
  /\ \A i \in 1..Len(requests) :
       /\ requests[i].strategy = StrategyOrder[i]
       /\ \A j \in 1..(i - 1) : ~requests[j].succeeded

NoStrategySucceeded == \A i \in 1..Len(requests) : ~requests[i].succeeded

Rejects(l) ==
  /\ l \in inflight
  /\ l \notin inflight'
  /\ arrivals' = Append(arrivals, Arrival(l, FALSE, <<>>))

\* C5: a load whose fetch fails leaves the displayed collection unchanged.
C5_FailedLoadKeepsItems ==
  [][\A l \in inflight : Rejects(l) => items' = items]_vars

\* a failure arrived after records were displayed, and they are still displayed
C5_Witness ==
  /\ items # <<>>
  /\ \E i, j \in 1..Len(arrivals) :
       i < j /\ arrivals[i].ok /\ arrivals[i].data # <<>> /\ ~arrivals[j].ok

OkArrivals == {i \in 1..Len(arrivals) : arrivals[i].ok}

LastOkArrival == CHOOSE i \in OkArrivals : \A j \in OkArrivals : j <= i

\* C6: the displayed collection is exactly the result of the successful load
\* whose response arrived last, whatever the order the loads were started in
\* (the empty collection before any success).
C6_LastArrivalWins ==
  items = IF OkArrivals = {} THEN <<>> ELSE arrivals[LastOkArrival].data

\* two successes arrived against their starting order with different records,
\* and the later arrival, the load started earlier, is displayed
C6_Witness ==
  /\ OkArrivals # {}
  /\ items = arrivals[LastOkArrival].data
  /\ \E i \in OkArrivals :
       /\ i < LastOkArrival
       /\ arrivals[i].id > arrivals[LastOkArrival].id
       /\ arrivals[i].data # arrivals[LastOkArrival].data
       /\ arrivals[i].data # <<>>

\* C7 as stated: every retrieval failure leaves the generic message in the
\* error state, whichever trigger started the load.
C7_FailureSetsError ==
  [][\A l \in inflight : Rejects(l) => error' = GenericError]_vars

\* C7 amended: a failure of a foreground load (initial load, settings save)
\* leaves the generic message in the error state; a failure of a background
\* load (polling tick, manual refresh) leaves the error state as it was.
C7_FailureSetsErrorAmended ==
  [][\A l \in inflight :
       Rejects(l) => error' = IF l.isBackground THEN error ELSE GenericError]_vars

\* a foreground load and a background load have both failed; the message shown
\* is the one of the foreground failure
C7_Witness ==
  /\ error = GenericError
  /\ \E i, j \in 1..Len(arrivals) : i # j /\ ~arrivals[i].ok /\ ~arrivals[j].ok
  /\ nextLoadId > 2

\* the letter string of a zero-based index in bijective base 26 (A=1 .. Z=26)
RECURSIVE BijectiveLetters(_)
BijectiveLetters(n) ==
  IF n < 0 THEN <<>>
  ELSE BijectiveLetters((n \div 26) - 1) \o <<UpperAlpha[(n % 26) + 1]>>

\* the number of letter strings of length 1..n
RECURSIVE CountLetterStrings(_)
CountLetterStrings(n) == IF n <= 0 THEN 0 ELSE 26 * (CountLetterStrings(n - 1) + 1)

HeaderHits(headerLine, keywords) ==
  {i \in 1..Len(normalizeHeaders(headerLine)) :
     \E k \in 1..Len(keywords) : includes(normalizeHeaders(headerLine)[i], keywords[k])}

KeywordOrFallback ==
  LET hits == HeaderHits(rHeaderLine, rRole.keywords)
  IN  IF hits # {}
      THEN (rIndex + 1) \in hits /\ \A j \in hits : rIndex + 1 <= j
      ELSE rIndex = rRole.fallbackIdx

\* C9 as stated: a user value that is a non-empty string of letters gives its
\* column index unconditionally; every other user value gives the first header
\* containing a keyword of the role, else the fallback index.
C9_ThreeTier ==
  rpc = "done" =>
    IF Len(rUserVal) > 0 /\ \A i \in 1..Len(rUserVal) : IsLetter(rUserVal[i])
    THEN rIndex >= 0 /\ BijectiveLetters(rIndex) = toUpperCase(rUserVal)
    ELSE KeywordOrFallback

\* C9 amended: a user value containing at least one letter gives the column
\* index of its letters (every other character ignored, case-insensitive)
\* unconditionally, even beyond the header's width; every other user value
\* gives the first normalized header containing a keyword of the role, else the
\* fallback index.
C9_ThreeTierAmended ==
  rpc = "done" =>
    IF \E i \in 1..Len(rUserVal) : IsLetter(rUserVal[i])
    THEN rIndex >= 0 /\ BijectiveLetters(rIndex) = toUpperCase(SelectSeq(rUserVal, IsLetter))
    ELSE KeywordOrFallback

\* the user's letters win over a header that matches a keyword and point
\* beyond the header's width
C9_Witness ==
  /\ rpc = "done"
  /\ rUserVal = <<"a","z">>
  /\ rIndex = 51
  /\ rIndex >= Len(normalizeHeaders(rHeaderLine))
  /\ HeaderHits(rHeaderLine, rRole.keywords) # {}

\* C10: on the non-empty strings over A..Z getColumnIndex is a bijection onto
\* the non-negative integers in bijective base 26: A is 0, Z is 25, AA is 26;
\* the index determines the string (distinct strings, distinct indices); and
\* the strings of length n have their indices in the block that follows the
\* indices of all shorter strings and holds exactly 26^n numbers, so every
\* index is taken.
C10_Bijection ==
  cpc = "done" =>
    /\ colIndex >= 0
    /\ BijectiveLetters(colIndex) = letter
    /\ colIndex >= CountLetterStrings(Len(letter) - 1)
    /\ colIndex < CountLetterStrings(Len(letter))
    /\ letter = <<"A">> => colIndex = 0
    /\ letter = <<"Z">> => colIndex = 25
    /\ letter = <<"A","A">> => colIndex = 26

C10_Witness == cpc = "done" /\ letter = <<"A","A">> /\ colIndex = 26

\* C11 as stated: a line that is one quoted field gives exactly one field, not
\* split at a quoted comma, with each doubled quote decoded to one quote; the
\* line "a,""b""c" gives the single field value a"b"c.
C11_QuotedField ==
  csvpc = "done" =>
    /\ Len(csvFields) = 1
    /\ csvFields[1] = csvValue
    /\ csvLine = <<"\"","a",",","\"","\"","b","\"","\"","c","\"">> => csvFields = <<<<"a","\"","b","\"","c">>>>

\* C11 amended: a line that is one quoted field gives exactly one field, not
\* split at a quoted comma, with each doubled quote decoded to one quote; the
\* line "a,""b""c" gives the single field value a,"b"c, the comma kept.
C11_QuotedFieldAmended ==
  csvpc = "done" =>
    /\ Len(csvFields) = 1
    /\ csvFields[1] = csvValue
    /\ csvLine = <<"\"","a",",","\"","\"","b","\"","\"","c","\"">> => csvFields = <<<<"a",",","\"","b","\"","c">>>>

\* the line "a,""b""c" has been tokenized into the one field a,"b"c
C11_Witness ==
  /\ csvpc = "done"
  /\ csvLine = <<"\"","a",",","\"","\"","b","\"","\"","c","\"">>
  /\ csvFields = <<<<"a",",","\"","b","\"","c">>>>

\* the column indices the builder runs under
RowIx == resolveColumns(normalizeHeaders(rowHeader), EmptyMapping)

\* the trimmed cell of the data line at a resolved index ('' when out of range)
RowCell(idx) == getVal(parseCSVLine(rowLine), idx)

RowBuilt == rowpc # "call" /\ rowItem.kind = "built"

\* C13: the id is chosen by strict priority: the SKU cell if non-empty, else
\* the part-number cell if non-empty, else the cleaned description with all
\* whitespace removed if non-empty, else the generated GEN- id; the description
\* "Front Bumper (FLOW FORMING)" with no SKU and no part number gives the name
\* "Front Bumper" and the id "FrontBumper".
C13_IdPriority ==
  RowBuilt =>
    LET r        == rowItem.item
        skuCell  == RowCell(RowIx.idxSku)
        partCell == RowCell(RowIx.idxPartNum)
        squeezed == SelectSeq(r.name, LAMBDA c : ~IsSpace(c))
    IN  /\ skuCell # <<>> => r.id = skuCell
        /\ (skuCell = <<>> /\ partCell # <<>>) => r.id = partCell
        /\ (skuCell = <<>> /\ partCell = <<>> /\ squeezed # <<>>) => r.id = squeezed
        /\ (skuCell = <<>> /\ partCell = <<>> /\ squeezed = <<>>) =>
             (startsWith(r.id, <<"G","E","N","-">>) /\ Len(r.id) > 4)
        /\ (skuCell = <<>> /\ partCell = <<>>
              /\ RowCell(RowIx.idxDetails) = <<"F","r","o","n","t"," ","B","u","m","p","e","r"," ","(","F","L","O","W"," ","F","O","R","M","I","N","G",")">>) =>
             (r.name = <<"F","r","o","n","t"," ","B","u","m","p","e","r">> /\ r.id = <<"F","r","o","n","t","B","u","m","p","e","r">>)

\* the row with only the description "Front Bumper (FLOW FORMING)" has been
\* built with the id "FrontBumper"
C13_Witness ==
  /\ RowBuilt
  /\ RowCell(RowIx.idxSku) = <<>>
  /\ RowCell(RowIx.idxPartNum) = <<>>
  /\ RowCell(RowIx.idxDetails) = <<"F","r","o","n","t"," ","B","u","m","p","e","r"," ","(","F","L","O","W"," ","F","O","R","M","I","N","G",")">>
  /\ rowItem.item.id = <<"F","r","o","n","t","B","u","m","p","e","r">>

\* the cell holds no number: it has no digit at all
HoldsNoNumber(cell) == \A i \in 1..Len(cell) : ~IsDigit(cell[i])

\* C14: for every text in the quantity cell the quantity is an integer, the
\* integer parse of the cell with everything but digits and minus removed, and
\* it is 0 whenever the cell holds no number (empty, out-of-range column, or
\* text without digits such as "-" or "N/A").
C14_QuantityInteger ==
  RowBuilt =>
    LET q    == rowItem.item.quantity
        cell == RowCell(RowIx.idxQty)
    IN  /\ ~q.nan
        /\ HoldsNoNumber(cell) => q = Num(0)

\* the values of the five ETA slots of a data line, in slot order
EtaSlots(cols, etaIndices) == [k \in 1..5 |-> getVal(cols, etaIndices[k])]

IsNotAvailable(val) ==
  /\ Len(val) = 3
  /\ val[1] \in {"n", "N"}
  /\ val[2] = "/"
  /\ val[3] \in {"a", "A"}

\* the slot values that are neither empty nor 'n/a' in any letter case, in order
RECURSIVE Survivors(_)
Survivors(slots) ==
  IF slots = <<>> THEN <<>>
  ELSE IF Head(slots) = <<>> \/ IsNotAvailable(Head(slots)) THEN Survivors(Tail(slots))
  ELSE <<Head(slots)>> \o Survivors(Tail(slots))

\* C17 as stated: etas is the sequence of the surviving slot values, the empty
\* sequence when none survive, and eta is those values joined with ', '.
C17_Etas ==
  RowBuilt =>
    LET r     == rowItem.item
        slots == EtaSlots(parseCSVLine(rowLine), RowIx.etaIndices)
        alive == Survivors(slots)
    IN  /\ r.etas.defined
        /\ r.etas.val = alive
        /\ r.eta = joinWith(alive, <<","," ">>)
        /\ slots = <<<<"3","/","1">>, <<"N","/","A">>, <<>>, <<"3","/","1","5">>, <<"n","/","a">>>> =>
             (r.etas.val = <<<<"3","/","1">>, <<"3","/","1","5">>>> /\ r.eta = <<"3","/","1",","," ","3","/","1","5">>)

\* C17 amended: when at least one slot value survives, etas is the sequence of
\* the surviving values in slot order; when none survives, etas is absent
\* (undefined), not an empty sequence; eta is the surviving values joined with
\* ', ' (the empty string when none survives).
C17_EtasAmended ==
  RowBuilt =>
    LET r     == rowItem.item
        slots == EtaSlots(parseCSVLine(rowLine), RowIx.etaIndices)
        alive == Survivors(slots)
    IN  /\ r.etas.defined <=> alive # <<>>
        /\ r.etas.val = alive
        /\ r.eta = joinWith(alive, <<","," ">>)
        /\ slots = <<<<"3","/","1">>, <<"N","/","A">>, <<>>, <<"3","/","1","5">>, <<"n","/","a">>>> =>
             (r.etas.defined /\ r.etas.val = <<<<"3","/","1">>, <<"3","/","1","5">>>> /\ r.eta = <<"3","/","1",","," ","3","/","1","5">>)

\* the row with the slots 3/1, N/A, empty, 3/15, n/a has been built
C17_Witness ==
  /\ RowBuilt
  /\ rowItem.item.etas = [defined |-> TRUE, val |-> <<<<"3","/","1">>, <<"3","/","1","5">>>>]
  /\ rowItem.item.eta = <<"3","/","1",","," ","3","/","1","5">>
  /\ EtaSlots(parseCSVLine(rowLine), RowIx.etaIndices) = <<<<"3","/","1">>, <<"N","/","A">>, <<>>, <<"3","/","1","5">>, <<"n","/","a">>>>

\* C18: for every description cell the cleaned name contains no occurrence of
\* the tags "(FLOW FORMING)" or "(new arrive)" in any letter case, has no
\* leading or trailing whitespace, and has no run of two or more whitespace
\* characters.
C18_CleanName ==
  RowBuilt =>
    LET name  == rowItem.item.name
        lower == toLowerCase(name)
    IN  /\ ~includes(lower, <<"(","f","l","o","w"," ","f","o","r","m","i","n","g",")">>)
        /\ ~includes(lower, <<"(","n","e","w"," ","a","r","r","i","v","e",")">>)
        /\ name # <<>> => (~IsSpace(name[1]) /\ ~IsSpace(name[Len(name)]))
        /\ \A i \in 1..(Len(name) - 1) : ~(IsSpace(name[i]) /\ IsSpace(name[i + 1]))

RECURSIVE flattenQuoted(_, _, _, _)
flattenQuoted(t, i, inQuotes, acc) ==
  IF i > Len(t) THEN acc
  ELSE IF t[i] = "\"" THEN flattenQuoted(t, i + 1, ~inQuotes, Append(acc, t[i]))
  ELSE IF t[i] = "\n" /\ inQuotes THEN flattenQuoted(t, i + 1, inQuotes, Append(acc, " "))
  ELSE flattenQuoted(t, i + 1, inQuotes, Append(acc, t[i]))

WithoutQuotedBreaks(t) == flattenQuoted(t, 1, FALSE, <<>>)

\* C12: a newline inside a double-quoted field is literal: a sheet in which a
\* data row has a quoted cell with a newline gives as many built rows, with the
\* same column alignment, as the same sheet without that newline.
C12_QuotedNewline ==
  (fpc = "done" /\ WithoutQuotedBreaks(text) # text /\ outcome.kind = "return") =>
    LET here == builtItems(text, mapping)
        flat == builtItems(WithoutQuotedBreaks(text), mapping)
    IN  /\ Len(here) = Len(flat)
        /\ \A k \in 1..Len(here) :
             /\ here[k].sku = flat[k].sku
             /\ here[k].category = flat[k].category
             /\ here[k].quantity = flat[k].quantity

\* the data lines of the text that repeat its header line, by position among
\* the built records
RepeatedHeaderRows(t) ==
  LET lines == nonEmptyLines(t)
  IN  {k \in 1..(Len(lines) - 1) : lines[k + 1] = lines[1]}

\* C16: repeated header rows are filtered out: for every header line, a later
\* data line identical to the header line produces no record in the returned
\* collection.
C16_RepeatedHeaderDropped ==
  (fpc = "done" /\ outcome.kind = "return" /\ Len(nonEmptyLines(text)) >= 2) =>
    LET built == builtItems(text, mapping)
    IN  \A k \in RepeatedHeaderRows(text) :
          \A i \in 1..Len(outcome.items) : outcome.items[i] # built[k]

\* C19: two data rows that both have empty SKU, part number and name but differ
\* in their (category, location) pair receive different GEN- ids.
C19_DistinctGenIds ==
  (fpc = "done" /\ outcome.kind = "return" /\ Len(nonEmptyLines(text)) >= 2) =>
    LET built == builtItems(text, mapping)
    IN  \A i, j \in 1..Len(built) :
          ( /\ built[i].sku = <<>> /\ built[i].partNumber = <<>> /\ built[i].name = <<>>
            /\ built[j].sku = <<>> /\ built[j].partNumber = <<>> /\ built[j].name = <<>>
            /\ <<built[i].category, built[i].location>> # <<built[j].category, built[j].location>> )
          => built[i].id # built[j].id

\* the six conditions under which a built record is kept, as they are stated
KeptAsStated(item) ==
  LET lowerName == toLowerCase(item.name)
      lowerId   == toLowerCase(item.id)
  IN  /\ item.id # <<>>
      /\ ~(item.name = <<>> /\ JsLe(item.quantity, Num(0)) /\ item.category = <<"U","n","c","a","t","e","g","o","r","i","z","e","d">>)
      /\ ~includes(lowerName, <<"f","i","t","m","e","n","t">>)
      /\ ~(includes(toLowerCase(item.partNumber), <<"(","h","i","g","h","o","f","f","s","e","t",")">>) \/ includes(lowerId, <<"(","h","i","g","h","o","f","f","s","e","t",")">>))
      /\ ~(trim(lowerId) \in headerKeywords \/ trim(lowerName) \in headerKeywords)
      /\ ~(includes(lowerName, <<"d","e","s","c","r","i","p","t","i","o","n">>) /\ JsEq(item.quantity, Num(0)))

\* C15: a built record is in the returned collection if and only if all six
\* filter conditions hold; the returned collection is the built records that
\* satisfy them, in order, and a failing row is dropped without any error.
C15_FilterConditions ==
  (fpc = "done" /\ outcome.kind = "return" /\ Len(nonEmptyLines(text)) >= 2) =>
    outcome.items = SelectSeq(builtItems(text, mapping), KeptAsStated)

\* C27: search and filters are mutually exclusive: in every reachable state,
\* under any interleaving of searches (debounced, Enter or button), stat-card
\* clicks, model selections and Reset All, an active search (non-blank
\* searchQuery or non-empty multiIds) goes with quickFilter = 'ALL' and
\* selectedModel = null.
C27_SearchExcludesFilters ==
  isSearchActive => (quickFilter = "ALL" /\ selectedModel = <<>>)

\* a search is active after a filter and a model had been chosen: the text is
\* in the box, the timer has fired, and both filters are back at their defaults
C27_Witness ==
  /\ isSearchActive
  /\ multiIds = <<<<"d","1">>, <<"x","9">>>>
  /\ ~debounce
  /\ uniqueModels # {}
  /\ quickFilter = "ALL"
  /\ selectedModel = <<>>
  /\ Len(arrivals) = 2

\* C28: the model filter always names an existing model: selectedModel is null
\* or one of the categories present in the current items.
C28_SelectedModelExists ==
  selectedModel = <<>> \/ selectedModel \in uniqueModels

\* C22: after handleSaveSettings has stored a column mapping, every load
\* started from then on (the immediate reload, polling ticks, manual
\* refreshes) is given the stored mapping: a step that starts a load starts it
\* with the mapping held in columnMapping after the step.
C22_LoadsUseStoredMapping ==
  [][\A l \in inflight' \ inflight : l.mapping = columnMapping']_vars

\* the loads started so far, in flight or arrived
Started ==
  {[id |-> l.id, url |-> l.url, isBackground |-> l.isBackground] : l \in inflight}
  \cup {[id |-> arrivals[i].id, url |-> arrivals[i].url,
         isBackground |-> arrivals[i].isBackground] : i \in 1..Len(arrivals)}

\* the foreground load before load l (the mount load is the first)
PreviousForeground(l) ==
  CHOOSE p \in Started :
    /\ ~p.isBackground /\ p.id < l.id
    /\ \A q \in Started : (~q.isBackground /\ q.id < l.id) => q.id <= p.id

\* the foreground loads started by a save that changed the sheet URL
UrlChangeLoads ==
  {l \in Started : ~l.isBackground /\ l.id > 1 /\ PreviousForeground(l).url # l.url}

\* C23: once the sheet URL was changed and a load started for the newly
\* selected URL has succeeded, the displayed records are never those of a
\* previously selected URL: the success that arrived last is one for the
\* selected URL, in whatever order the loads complete.
C23_NoStaleUrlRecords ==
  \A c \in UrlChangeLoads :
    (/\ \A d \in UrlChangeLoads : d.id <= c.id
     /\ \E i \in OkArrivals : arrivals[i].id >= c.id /\ arrivals[i].url = activeSheetUrl)
    => arrivals[LastOkArrival].url = activeSheetUrl

\* C24: the progress flags track the loads in flight: syncing is true while a
\* background load is in flight and loading is true while a foreground load is
\* in flight, also with overlapping loads.
C24_FlagsTrackLoads ==
  /\ (\E l \in inflight : l.isBackground) => syncing
  /\ (\E l \in inflight : ~l.isBackground) => loading

\* C25: provided every request eventually resolves or rejects, every started
\* load reaches its completion step, and whenever no load is in flight both
\* loading and syncing are false, after a success as after a failure.
C25_LoadsTerminate ==
  /\ \A id \in 1..MaxLoads :
       (\E l \in inflight : l.id = id) ~> (\E i \in 1..Len(arrivals) : arrivals[i].id = id)
  /\ [](inflight = {} => (~loading /\ ~syncing))

\* two loads overlapped, one succeeded and one failed, both have completed and
\* both flags are down
C25_Witness ==
  /\ inflight = {}
  /\ ~loading /\ ~syncing
  /\ \E i, j \in 1..Len(arrivals) : arrivals[i].ok /\ ~arrivals[j].ok
  /\ arrivals[Len(arrivals)].id = 1
  /\ Len(arrivals) > 1

\* C26: ids identify records uniquely: no two records of one returned
\* collection have the same id, whatever the sheet holds.
C26_UniqueIds ==
  (fpc = "done" /\ outcome.kind = "return") =>
    \A i, j \in 1..Len(outcome.items) :
      i # j => outcome.items[i].id # outcome.items[j].id

\* the value of a decimal numeral, as halves of a 32-bit word
RECURSIVE digitsValue(_, _)
digitsValue(digits, v) ==
  IF digits = <<>> THEN v
  ELSE LET t == v.lo * 10 + DigitVal(Head(digits))
       IN  digitsValue(Tail(digits), [hi |-> v.hi * 10 + (t \div 65536), lo |-> t % 65536])

\* m is the absolute value of the signed 32-bit integer held in the word h
IsMagnitudeOf(m, h) ==
  IF h.hi < 32768 THEN m = h
  ELSE (m.lo + h.lo) % 65536 = 0
       /\ m.hi + h.hi + ((m.lo + h.lo) \div 65536) = 65536

\* C30: for every input string the shift form ((h << 5) - h) + charCode with
\* '|= 0' gives, after every character, the same h as h * 31 + charCode wrapped
\* to 32 bits starting from 0, and the fallback id is 'GEN-' followed by the
\* decimal numeral of the absolute value of h.
C30_ShiftFormIsTimes31 ==
  /\ hpc \in {"loop", "done"} => hashShift = hashMul
  /\ hpc = "done" =>
       /\ startsWith(hashId, <<"G","E","N","-">>)
       /\ LET numeral == SubSeq(hashId, 5, Len(hashId))
          IN  /\ numeral # <<>>
              /\ \A i \in 1..Len(numeral) : IsDigit(numeral[i])
              /\ (Len(numeral) > 1 => numeral[1] # "0")
              /\ IsMagnitudeOf(digitsValue(numeral, [hi |-> 0, lo |-> 0]), hashMul)

\* a string long enough for the hash to wrap has been hashed to a negative h
\* and the id is made
C30_Witness ==
  /\ hpc = "done"
  /\ hashPos = Len(hashInput)
  /\ Len(hashInput) > 8
  /\ hashMul.hi >= 32768
  /\ hashShift = hashMul
  /\ Len(hashId) > 4

\* an attempt failed: the fetch or the reading of its body threw, or the
\* status was not ok
attemptFailed(res) == res.threw \/ ~res.ok \/ ~res.readable

\* C29: for a GET request carrying a sheetId the handler requests the GVIZ URL
\* first and the Export URL only if the GVIZ attempt threw or had a non-ok
\* status, answers 200 text/csv with the body of the first attempt that
\* returned ok, and answers 502 exactly when both attempts failed; a GET
\* request without sheetId is answered 400 and no upstream request is made.
C29_ApiFallback ==
  apiRequest.method = "GET" =>
    IF apiRequest.given /\ apiRequest.sheetId # <<>>
    THEN /\ Len(apiUpstream) <= 2
         /\ Len(apiUpstream) >= 1 => apiUpstream[1].url = gvizUrl(apiRequest.sheetId)
         /\ Len(apiUpstream) = 2 =>
              /\ apiUpstream[2].url = exportUrl(apiRequest.sheetId)
              /\ attemptFailed(apiUpstream[1].outcome)
         /\ apipc = "done" =>
              LET good == {i \in 1..Len(apiUpstream) : ~attemptFailed(apiUpstream[i].outcome)}
              IN  /\ apiResponse.status \in {200, 502}
                  /\ apiResponse.status = 502 <=>
                       (Len(apiUpstream) = 2 /\ good = {})
                  /\ apiResponse.status = 200 =>
                       /\ good # {}
                       /\ apiResponse.contentType = "text/csv; charset=utf-8"
                       /\ \E i \in good :
                            /\ \A j \in good : i <= j
                            /\ apiResponse.body = apiUpstream[i].outcome.body
    ELSE /\ apiUpstream = <<>>
         /\ apipc = "done" => apiResponse.status = 400

\* GVIZ answered with a non-ok status, the Export URL was requested and
\* returned ok, and its body went out as 200 text/csv
C29_Witness ==
  /\ apipc = "done"
  /\ apiRequest.method = "GET"
  /\ Len(apiUpstream) = 2
  /\ ~apiUpstream[1].outcome.threw /\ ~apiUpstream[1].outcome.ok
  /\ ~attemptFailed(apiUpstream[2].outcome)
  /\ apiResponse.status = 200
  /\ apiResponse.body = apiUpstream[2].outcome.body

\* the category a record is counted under
CountedCategory(item) ==
  IF item.category = <<>> THEN <<"U","n","c","a","t","e","g","o","r","i","z","e","d">> ELSE item.category

RECURSIVE SumOfCounts(_, _)
SumOfCounts(categories, keys) ==
  IF keys = {} THEN 0
  ELSE LET k == CHOOSE x \in keys : TRUE
       IN  categories[k].n + SumOfCounts(categories, keys \ {k})

\* C21: the displayed stats are the full recomputation over the current items:
\* totalItems is the number of records, lowStockCount and outOfStockCount are
\* the numbers of records with status 'Low Stock' and 'Out of Stock', each
\* category count is the number of records of that category (blank counted as
\* 'Uncategorized'), and the category counts sum to totalItems.
C21_StatsRecomputed ==
  statpc = "shown" =>
    LET ixs == 1..Len(statItems)
        cats == statResult.categories
    IN  /\ statResult.totalItems = Len(statItems)
        /\ statResult.lowStockCount = Cardinality({i \in ixs : statItems[i].status = "Low Stock"})
        /\ statResult.outOfStockCount = Cardinality({i \in ixs : statItems[i].status = "Out of Stock"})
        /\ DOMAIN cats = {CountedCategory(statItems[i]) : i \in ixs}
        /\ \A c \in DOMAIN cats :
             cats[c] = Count(Cardinality({i \in ixs : CountedCategory(statItems[i]) = c}))
        /\ SumOfCounts(cats, DOMAIN cats) = statResult.totalItems

====
